---- MODULE Spec2Model ----
(***************************************************************************)
(* Model of the origami realtime-update (RTU) client:                      *)
(*   - NotebookBuilder (origami/notebook/builder.py): the in-memory        *)
(*     document and the application of typed deltas to it;                 *)
(*   - RTUClient (origami/clients/rtu.py): the delta sequencer, the        *)
(*     startup flow and the delta submission helper                        *)
(*     (DeltaRequestCallbackManager);                                      *)
(*   - the earlier RTUClient revision (origami/rtu_client/client.py).      *)
(*                                                                         *)
(* UUIDs are modelled as integers: 0 is the all-zero UUID, NoDelta is      *)
(* Python's None.  Message handlers run to completion on the single        *)
(* inbound worker, so each handler is one action.                          *)
(***************************************************************************)
EXTENDS Integers, Sequences, FiniteSets, TLC

(***************************************************************************)
(* Values                                                                  *)
(***************************************************************************)
\* Python None for an optional string (after_id, type, language, ...)
None == "__None__"

\* Python None for an optional UUID (last_applied_delta_id, parent_delta_id)
NoDelta == -1

\* uuid.UUID(int=0)
NULL_PARENT_DELTA_SENTINEL == 0

NULL_RESOURCE_SENTINEL == "__NULL_RESOURCE__"

NULL_PRIOR_VALUE_SENTINEL == "__NULL_PRIOR_VALUE__"

\* Python truthiness of an optional string: None and "" are falsy
Truthy(s) == s # None /\ s # ""

(***************************************************************************)
(* Nested metadata mappings.  A node is either a leaf value or a mapping   *)
(* from keys to nodes.                                                     *)
(***************************************************************************)
EmptyDict == [leaf |-> FALSE, v |-> "", d |-> <<>>]

Leaf(val) == [leaf |-> TRUE, v |-> val, d |-> <<>>]

HasKey(node, k) == k \in DOMAIN node.d

\* dict[k] = child
Put(node, k, child) ==
    [node EXCEPT !.d = [x \in (DOMAIN node.d) \cup {k} |->
                            IF x = k THEN child ELSE node.d[x]]]

\* faulty variant of the traversal: a last key that is present keeps its value
RECURSIVE SetPathKeepsPresent(_, _, _)
SetPathKeepsPresent(node, path, value) ==
    IF node.leaf THEN [node |-> node, raised |-> TRUE]
    ELSE IF Len(path) = 0 THEN [node |-> node, raised |-> TRUE]
    ELSE IF Len(path) = 1
    THEN [node |-> IF HasKey(node, path[1]) THEN node ELSE Put(node, path[1], value),
          raised |-> FALSE]
    ELSE LET k     == path[1]
             child == IF HasKey(node, k) THEN node.d[k] ELSE EmptyDict
             r     == SetPathKeepsPresent(child, Tail(path), value)
         IN  [node |-> Put(node, k, r.node), raised |-> r.raised]

\* The traversal shared by update_notebook_metadata and update_cell_metadata:
\* walk path[:-1] creating missing mappings, then assign path[-1] = value.
\* Descending into a value that is not a mapping raises (TypeError); an empty
\* path raises (IndexError).  The mappings created before a raise stay.
RECURSIVE SetPath(_, _, _)
SetPath(node, path, value) ==
    IF node.leaf THEN [node |-> node, raised |-> TRUE]
    ELSE IF Len(path) = 0 THEN [node |-> node, raised |-> TRUE]
    ELSE IF Len(path) = 1 THEN [node |-> Put(node, path[1], value), raised |-> FALSE]
    ELSE LET k     == path[1]
             child == IF HasKey(node, k) THEN node.d[k] ELSE EmptyDict
             r     == SetPath(child, Tail(path), value)
         IN  [node |-> Put(node, k, r.node), raised |-> r.raised]

(***************************************************************************)
(* NotebookBuilder                                                         *)
(***************************************************************************)
\* NotebookBuilder.__init__
NewBuilder(seed) ==
    [cells                 |-> seed.cells,
     metadata              |-> seed.metadata,
     last_applied_delta_id |-> NoDelta,
     deleted_cell_ids      |-> {}]

CellIds(cells) == {cells[i].id : i \in 1..Len(cells)}

\* NotebookBuilder.get_cell: index of the first cell with that id, 0 when
\* the code raises CellNotFound (indices here are 1-based)
get_cell(cells, cell_id) ==
    IF cell_id \in CellIds(cells)
    THEN CHOOSE i \in 1..Len(cells) :
            /\ cells[i].id = cell_id
            /\ \A j \in 1..(i-1) : cells[j].id # cell_id
    ELSE 0

\* list.insert(index, x) with a 0-based index
InsertAt(s, index, x) == SubSeq(s, 1, index) \o <<x>> \o SubSeq(s, index + 1, Len(s))

\* list.pop(index) with a 1-based index
PopAt(s, i) == SubSeq(s, 1, i - 1) \o SubSeq(s, i + 1, Len(s))

\* an absent embedded cell (properties.cell is None or empty)
NoCell == [id |-> None, cell_type |-> None, source |-> None, metadata |-> EmptyDict]

Ok(b) == [b |-> b, raised |-> FALSE]

Raise(b) == [b |-> b, raised |-> TRUE]

\* faulty variant of add_cell: the id of the embedded cell is kept
add_cell_embedded_id(b, delta) ==
    LET props == delta.properties IN
    IF props.cell = NoCell THEN Ok(b)
    ELSE IF Truthy(props.after_id)
         THEN LET index == get_cell(b.cells, props.after_id) IN
              IF index = 0 THEN Raise(b)
              ELSE Ok([b EXCEPT !.cells = InsertAt(b.cells, index, props.cell)])
         ELSE Ok([b EXCEPT !.cells = InsertAt(b.cells, 0, props.cell)])

\* nb_cells / add
add_cell(b, delta) ==
    LET props == delta.properties IN
    IF props.cell = NoCell THEN Ok(b)
    ELSE LET new_cell == [props.cell EXCEPT !.id = props.id] IN
         IF Truthy(props.after_id)
         THEN LET index == get_cell(b.cells, props.after_id) IN
              IF index = 0 THEN Raise(b)
              ELSE Ok([b EXCEPT !.cells = InsertAt(b.cells, index, new_cell)])
         ELSE Ok([b EXCEPT !.cells = InsertAt(b.cells, 0, new_cell)])

\* nb_cells / delete
delete_cell(b, delta) ==
    LET props == delta.properties IN
    IF ~Truthy(props.id) THEN Ok(b)
    ELSE LET index == get_cell(b.cells, props.id) IN
         IF index = 0 THEN Raise(b)
         ELSE Ok([b EXCEPT !.cells = PopAt(b.cells, index),
                           !.deleted_cell_ids = @ \cup {props.id}])

\* nb_cells / move: the cell is popped before after_id is looked up
move_cell(b, delta) ==
    LET props == delta.properties IN
    IF props.id = props.after_id THEN Ok(b)
    ELSE LET index == get_cell(b.cells, props.id) IN
         IF index = 0 THEN Raise(b)
         ELSE LET cell_to_move == b.cells[index]
                  popped       == PopAt(b.cells, index)
              IN  IF Truthy(props.after_id)
                  THEN LET target_index == get_cell(popped, props.after_id) IN
                       IF target_index = 0 THEN Raise([b EXCEPT !.cells = popped])
                       ELSE Ok([b EXCEPT !.cells = InsertAt(popped, target_index, cell_to_move)])
                  ELSE Ok([b EXCEPT !.cells = InsertAt(popped, 0, cell_to_move)])

\* diff_match_patch.patch_apply for a patch that rewrites the text `from` to
\* `to`: it applies when the cell source is `from`, otherwise the best-effort
\* result leaves the text as it is
patch_apply(patch, source) == IF source = patch.from THEN patch.to ELSE source

\* cell_contents / update
update_cell_contents(b, delta) ==
    LET index == get_cell(b.cells, delta.resource_id) IN
    IF index = 0 THEN Raise(b)
    ELSE Ok([b EXCEPT !.cells[index].source = patch_apply(delta.properties.patch, @)])

\* cell_contents / replace
replace_cell_contents(b, delta) ==
    LET index == get_cell(b.cells, delta.resource_id) IN
    IF index = 0 THEN Raise(b)
    ELSE Ok([b EXCEPT !.cells[index].source = delta.properties.source])

\* nb_metadata / update
update_notebook_metadata(b, delta) ==
    LET r == SetPath(b.metadata, delta.properties.path, delta.properties.value)
    IN  [b |-> [b EXCEPT !.metadata = r.node], raised |-> r.raised]

\* cell_metadata / update
update_cell_metadata(b, delta) ==
    IF delta.resource_id \in b.deleted_cell_ids THEN Ok(b)
    ELSE LET index == get_cell(b.cells, delta.resource_id) IN
         IF index = 0 THEN Ok(b)
         ELSE LET r == SetPath(b.cells[index].metadata, delta.properties.path,
                               delta.properties.value)
              IN  [b |-> [b EXCEPT !.cells[index].metadata = r.node], raised |-> r.raised]

\* pydantic.parse_obj_as(NotebookCell, cell.dict()): the cell_type tag has to
\* name one of the three cell variants
CellTypes == {"code", "markdown", "raw"}

\* cell_metadata / replace: the language is written only inside `if props.type`
replace_cell_metadata(b, delta) ==
    LET props == delta.properties
        index == get_cell(b.cells, delta.resource_id)
    IN  IF index = 0 THEN Raise(b)
        ELSE IF ~Truthy(props.type) THEN Ok(b)
        ELSE LET retyped == [b EXCEPT !.cells[index].cell_type = props.type] IN
             IF props.type \notin CellTypes THEN Raise(retyped)
             ELSE IF ~Truthy(props.language) THEN Ok(retyped)
             ELSE LET r == SetPath(retyped.cells[index].metadata,
                                   <<"noteable", "cell_type">>, Leaf(props.language))
                  IN  [b |-> [retyped EXCEPT !.cells[index].metadata = r.node],
                       raised |-> r.raised]

\* cell_output_collection / replace
replace_cell_output_collection(b, delta) ==
    IF delta.resource_id \in b.deleted_cell_ids THEN Ok(b)
    ELSE LET index == get_cell(b.cells, delta.resource_id) IN
         IF index = 0 THEN Ok(b)
         ELSE LET r == SetPath(b.cells[index].metadata,
                               <<"noteable", "output_collection_id">>,
                               Leaf(delta.properties.output_collection_id))
              IN  [b |-> [b EXCEPT !.cells[index].metadata = r.node], raised |-> r.raised]

\* cell_execute / execute, execute_all, execute_before, execute_after
log_execute_delta(b, delta) == Ok(b)

ExecuteActions == {"execute", "execute_all", "execute_before", "execute_after"}

\* the handlers table of NotebookBuilder.apply_delta
HasHandler(delta) ==
    \/ delta.delta_type = "nb_cells" /\ delta.delta_action \in {"add", "delete", "move"}
    \/ delta.delta_type = "cell_contents" /\ delta.delta_action \in {"update", "replace"}
    \/ delta.delta_type = "cell_metadata" /\ delta.delta_action \in {"update", "replace"}
    \/ delta.delta_type = "nb_metadata" /\ delta.delta_action = "update"
    \/ delta.delta_type = "cell_output_collection" /\ delta.delta_action = "replace"
    \/ delta.delta_type = "cell_execute" /\ delta.delta_action \in ExecuteActions

RunHandler(b, delta) ==
    CASE delta.delta_type = "nb_cells" /\ delta.delta_action = "add" -> add_cell(b, delta)
      [] delta.delta_type = "nb_cells" /\ delta.delta_action = "delete" -> delete_cell(b, delta)
      [] delta.delta_type = "nb_cells" /\ delta.delta_action = "move" -> move_cell(b, delta)
      [] delta.delta_type = "cell_contents" /\ delta.delta_action = "update" ->
            update_cell_contents(b, delta)
      [] delta.delta_type = "cell_contents" /\ delta.delta_action = "replace" ->
            replace_cell_contents(b, delta)
      [] delta.delta_type = "cell_metadata" /\ delta.delta_action = "update" ->
            update_cell_metadata(b, delta)
      [] delta.delta_type = "cell_metadata" /\ delta.delta_action = "replace" ->
            replace_cell_metadata(b, delta)
      [] delta.delta_type = "nb_metadata" /\ delta.delta_action = "update" ->
            update_notebook_metadata(b, delta)
      [] delta.delta_type = "cell_output_collection" /\ delta.delta_action = "replace" ->
            replace_cell_output_collection(b, delta)
      [] OTHER -> log_execute_delta(b, delta)

\* the last statement of NotebookBuilder.apply_delta, reached when the
\* handler returned: r is the handler's outcome
SetLastApplied(r, delta) ==
    IF r.raised THEN r
    ELSE Ok([r.b EXCEPT !.last_applied_delta_id = delta.id])

\* faulty variant of NotebookBuilder.apply_delta: last_applied_delta_id is set
\* only when a handler ran
BuilderApplyDeltaStale(b, delta) ==
    IF ~HasHandler(delta)
    THEN Ok(b)
    ELSE SetLastApplied(RunHandler(b, delta), delta)

\* NotebookBuilder.apply_delta: run the handler when there is one, then set
\* last_applied_delta_id; a raising handler leaves last_applied_delta_id alone
BuilderApplyDelta(b, delta) ==
    IF ~HasHandler(delta)
    THEN Ok([b EXCEPT !.last_applied_delta_id = delta.id])
    ELSE SetLastApplied(RunHandler(b, delta), delta)

(***************************************************************************)
(* Bounds and the finite universe of inputs                                *)
(***************************************************************************)
\* server messages received in one run
MaxMsgs == 5

\* new_delta_event messages in one run
MaxDeltaEvents == 3

\* delta submissions (RTUClient.new_delta_request calls) in one run
MaxSubmissions == 1

\* websocket disconnects in one run
MaxDisconnects == 1

\* inconsistent_state_event messages in one run
MaxReloads == 1

\* NotebookBuilder.apply_delta calls in one run of the builder on its own
MaxApplies == 2

\* file version id returned by GET /v1/files (NoVersion: no current version)
NoVersion == -1

FileVersion == 100

\* the current version id after the server asked for a reload
NewFileVersion == 101

NoProps ==
    [id |-> None, after_id |-> None, cell |-> NoCell, source |-> None,
     patch |-> [from |-> None, to |-> None], path |-> <<>>, value |-> Leaf(None),
     prior_value |-> NULL_PRIOR_VALUE_SENTINEL, type |-> None,
     language |-> None, output_collection_id |-> None]

\* FileDeltaBase: a delta record
Delta(id, parent, dtype, action, resource, props) ==
    [id |-> id, parent_delta_id |-> parent, delta_type |-> dtype,
     delta_action |-> action, resource_id |-> resource, properties |-> props]

Cell(id, ctype, source) ==
    [id |-> id, cell_type |-> ctype, source |-> source, metadata |-> EmptyDict]

Seed(cells) == [cells |-> cells, metadata |-> EmptyDict]

\* seed notebooks the download may return
Seeds == {Seed(<<>>), Seed(<<Cell("c1", "code", "x")>>)}

\* Deltas of other participants as the server linearized them: a chain
\* 1 <- 2 <- 3 <- 4 <- 5 rooted at the all-zero parent.  They are notebook
\* metadata updates, which apply to every notebook.
ChainLen == 5

ChainDelta(i) ==
    Delta(i, i - 1, "nb_metadata", "update", NULL_RESOURCE_SENTINEL,
          [NoProps EXCEPT !.path = <<"k">>, !.value = Leaf("v")])

ChainDeltas == {ChainDelta(i) : i \in 1..ChainLen}

\* ids of the deltas this client submits
SubmitId(n) == 10 + n

\* what a submission may ask for: (delta_type, delta_action, resource_id, properties)
SubmitContents ==
    { [delta_type |-> "cell_contents", delta_action |-> "replace", resource_id |-> "c1",
       properties |-> [NoProps EXCEPT !.source = "Z"]],
      [delta_type |-> "cell_execute", delta_action |-> "execute", resource_id |-> "c1",
       properties |-> NoProps] }

\* parents the server may give a submitted delta when it broadcasts it
BroadcastParents == {0, 1, 2}

\* deltas_to_apply lists of a subscribe_reply
ReplyLists ==
    { <<>>,
      <<ChainDelta(1)>>,
      <<ChainDelta(1), ChainDelta(2)>>,
      <<ChainDelta(2), ChainDelta(3)>>,
      <<ChainDelta(2), ChainDelta(5), ChainDelta(4), ChainDelta(3), ChainDelta(1)>> }

\* new_delta_event messages in one run of the ordering scenario
MaxScenarioEvents == 5

\* latest_delta_id values of a subscribe_reply
LatestIds == {0, 1, 2}

(***************************************************************************)
(* State                                                                   *)
(***************************************************************************)
VARIABLES
    builder,                \* RTUClient.builder (NotebookBuilder)
    file_version_id,        \* RTUClient.file_version_id
    unapplied_deltas,       \* RTUClient.unapplied_deltas
    deltas_to_apply_event,  \* RTUClient.deltas_to_apply_event.is_set()
    delta_callbacks,        \* RTUClient.delta_callbacks
    registry,               \* transaction-id handlers registered with the manager
    submissions,            \* the DeltaRequestCallbackManager instances, in creation order
    ws,                     \* websocket: "down", "connecting", "unauth", "authed"
    pendingSubs,            \* subscribe_requests sent on this connection and not answered
    subscribed,             \* a subscribe_request was sent on this connection
    initPc,                 \* caller: "new", "initialized", "realtime", "failed"
    nmsgs,                  \* server messages received
    nevents,                \* new_delta_event messages received
    ndisc,                  \* disconnects
    nreloads,               \* inconsistent_state_event messages received
    caughtUp,               \* a subscribe_reply was processed for the current builder
    applied,                \* ids of the deltas squashed into the current builder
    seeded,                 \* latest_delta_id that seeded last_applied_delta_id, or NoDelta
    scenario,               \* how far the deltas that arrived follow ScenarioA (-1: not at all)
    reply_ids,              \* ids in deltas_to_apply of the replies for the current builder
    stepApplies,            \* RTUClient.apply_delta calls made by the last step
    stepSent,               \* requests passed to RTUClient.send by the last step
    stepErrors,             \* exceptions raised inside handlers by the last step
    lastStep,               \* name of the last step
    calls,                  \* NotebookBuilder.apply_delta calls made on the builder alone
    stepMsg,                \* message dispatched to a transaction-id callback by the last step
    file_subscribe_timeout_task,
                            \* RTUClient.file_subscribe_timeout_task: None, "pending",
                            \* "cancelled" or "raised"
    orphan_timeout_tasks,   \* sleeping on_file_subscribe_timeout tasks the client no longer refers to
    execute_cell_events,    \* RTUClient._execute_cell_events
    cell_states,            \* RTUClient.cell_states
    kernel_state,           \* RTUClient.kernel_state
    stepFutures,            \* cell ids of the futures queue_execution created in the last step
    stepCallbacks,          \* delta callbacks gathered and run by each apply_delta of the last step
    trackers,               \* CallbackTracker objects NoteableClient.register_message_callback created
    transaction_callbacks,  \* NoteableClient.transaction_callbacks of the one channel
    type_callbacks,         \* NoteableClient.type_callbacks of the one channel
    process_task_loop,      \* NoteableClient.process_task_loop: None, running or done
    stepInvoked,            \* trackers the last message was handed to, with the outcome
    passed_over,            \* ids of the queued deltas a replay passed over for a delta with the same parent
    squash_calls            \* ids of the deltas NotebookBuilder.apply_delta was called with on the current builder

vars == <<builder, file_version_id, unapplied_deltas, deltas_to_apply_event,
          delta_callbacks, registry, submissions, ws, pendingSubs, subscribed, initPc,
          nmsgs, nevents, ndisc, nreloads, caughtUp, applied, seeded, scenario, reply_ids,
          stepApplies, stepSent, stepErrors, lastStep, calls,
          stepMsg,
          file_subscribe_timeout_task,
          orphan_timeout_tasks,
          execute_cell_events,
          cell_states,
          kernel_state,
          stepFutures,
          stepCallbacks,
          trackers,
          transaction_callbacks,
          type_callbacks,
          process_task_loop,
          stepInvoked,
          passed_over,
          squash_calls>>

\* RTUClient.builder before load_seed_notebook ran
NoBuilder == NewBuilder(Seed(<<>>))

\* cell ids that execution requests and cell state updates may name
ExecCells == {"c1", "c2", "c3"}

\* no entry for the cell in _execute_cell_events
NoFuture == [state |-> "absent", cell |-> NoCell, by |-> None]

\* RTUClient._execute_cell_events after __init__: an empty dict
NoExecutions == [cell_id \in ExecCells |-> NoFuture]

\* RTUClient.cell_states after __init__: an empty dict
NoCellStates == [cell_id \in ExecCells |-> None]

\* transaction ids of the requests of a NoteableClient
TransactionIds == {"t1", "t2"}

\* events of the messages a NoteableClient receives
MessageTypes == {"new_delta_reply", "new_delta_event", "invalid_data"}

\* NoteableClient.transaction_callbacks after __init__: every LifoQueue empty
NoTransactionCallbacks == [transaction_id \in TransactionIds |-> <<>>]

\* NoteableClient.type_callbacks after __init__: every LifoQueue empty
NoTypeCallbacks == [message_type \in MessageTypes |-> <<>>]

\* no message was dispatched to a transaction-id callback
NoMsg ==
    [sub |-> 0, event |-> None, cause |-> None, registered |-> FALSE, result |-> None,
     builder |-> NoBuilder]

(***************************************************************************)
(* RTUClient: squashing, queueing and replaying deltas.  The operators     *)
(* work on a record c of the client fields they read and write.           *)
(***************************************************************************)
Client ==
    [builder          |-> builder,
     unapplied_deltas |-> unapplied_deltas,
     delta_callbacks  |-> delta_callbacks,
     registry         |-> registry,
     submissions      |-> submissions,
     applied          |-> applied,
     seeded           |-> seeded,
     stepApplies      |-> <<>>,
     stepSent         |-> <<>>,
     stepErrors       |-> <<>>,
     stepMsg          |-> NoMsg,
     file_subscribe_timeout_task |-> file_subscribe_timeout_task,
     orphan_timeout_tasks        |-> orphan_timeout_tasks,
     execute_cell_events         |-> execute_cell_events,
     cell_states                 |-> cell_states,
     kernel_state     |-> kernel_state,
     stepFutures      |-> <<>>,
     stepCallbacks    |-> <<>>,
     trackers         |-> trackers,
     transaction_callbacks |-> transaction_callbacks,
     type_callbacks   |-> type_callbacks,
     process_task_loop |-> process_task_loop,
     stepInvoked      |-> <<>>,
     passed_over      |-> passed_over,
     squash_calls     |-> squash_calls]

\* list.remove(x): drop the first element equal to x
RECURSIVE Remove(_, _)
Remove(s, x) ==
    IF s = <<>> THEN s
    ELSE IF Head(s) = x THEN Tail(s)
    ELSE <<Head(s)>> \o Remove(Tail(s), x)

\* the DeltaCallback a submission registered
DeltaCb(n, delta) == [sub |-> n, delta_class |-> <<delta.delta_type, delta.delta_action>>]

\* DeltaRequestCallbackManager.deregister_callbacks of submission n
deregister_callbacks(c, n) ==
    [c EXCEPT !.registry = @ \ {n},
              !.delta_callbacks = Remove(@, DeltaCb(n, c.submissions[n].delta))]

\* DeltaRequestCallbackManager.delta_cb of submission n, run for a squashed delta
delta_cb(c, n, delta) ==
    IF delta.id = c.submissions[n].delta.id
    THEN LET c1 == IF c.submissions[n].result = "pending"
                   THEN [c EXCEPT !.submissions[n].result = "success",
                                  !.submissions[n].squashed_at_success =
                                        (delta.id \in c.applied),
                                  !.submissions[n].last_at_success =
                                        c.builder.last_applied_delta_id]
                   ELSE c
         IN  deregister_callbacks(c1, n)
    ELSE c

\* delta callbacks the application registers with register_delta_callback:
\* one whose coroutine raises and one whose coroutine returns
FailingCallback == -1

QuietCallback == -2

AppCallbacks == {FailingCallback, QuietCallback}

\* dc.fn(delta) awaited by the gather of apply_delta: delta_cb for the
\* callback of a submission, nothing for a callback of the application
RunDeltaCallback(c, dc, delta) ==
    IF dc.sub > 0 THEN delta_cb(c, dc.sub, delta) ELSE c

\* the result the gather of apply_delta collected for one callback
Gathered(c, dc) ==
    [c EXCEPT !.stepCallbacks[Len(c.stepCallbacks)].ran = Append(@, dc.sub),
              !.stepCallbacks[Len(c.stepCallbacks)].raised =
                    IF dc.sub = FailingCallback THEN Append(@, dc.sub) ELSE @]

\* faulty variant of the gather: the first callback that raises ends it
RECURSIVE RunDeltaCallbacksUntilRaise(_, _, _)
RunDeltaCallbacksUntilRaise(c, cbs, delta) ==
    IF cbs = <<>> THEN c
    ELSE IF Head(cbs).sub = FailingCallback THEN Gathered(c, Head(cbs))
    ELSE RunDeltaCallbacksUntilRaise(
            Gathered(RunDeltaCallback(c, Head(cbs), delta), Head(cbs)), Tail(cbs), delta)

\* the callbacks RTUClient.apply_delta gathered, run one after another;
\* asyncio.gather(..., return_exceptions=True) collects what they raise
RECURSIVE RunDeltaCallbacks(_, _, _)
RunDeltaCallbacks(c, cbs, delta) ==
    IF cbs = <<>> THEN c
    ELSE RunDeltaCallbacks(Gathered(RunDeltaCallback(c, Head(cbs), delta), Head(cbs)),
                           Tail(cbs), delta)

\* the list `callbacks` apply_delta built for the delta
GatherCallbacks(c, cbs, delta) ==
    [c EXCEPT !.stepCallbacks =
                  Append(@, [delta |-> delta.id,
                             gathered |-> [i \in 1..Len(cbs) |-> cbs[i].sub],
                             ran |-> <<>>, raised |-> <<>>])]

\* isinstance(delta, dc.delta_class)
IsInstance(delta, delta_class) == <<delta.delta_type, delta.delta_action>> = delta_class

\* the client after self.builder.apply_delta(delta) ended with outcome r
Squashed(c, delta, via, r) ==
    [c EXCEPT !.builder = r.b,
              !.stepApplies =
                  Append(@, [delta |-> delta,
                             last_before |-> c.builder.last_applied_delta_id,
                             raised |-> r.raised, via |-> via, caught_up |-> caughtUp]),
              !.applied = IF r.raised THEN @ ELSE @ \cup {delta.id},
              !.squash_calls = @ \cup {delta.id}]

\* RTUClient.apply_delta: squash the delta into the builder; when the builder
\* raises, failed_to_squash_delta (a no-op hook) is awaited and the method
\* goes on; then every delta callback registered for the delta's class runs
apply_delta(c, delta, via) ==
    RunDeltaCallbacks(
        GatherCallbacks(
            Squashed(c, delta, via, BuilderApplyDelta(c.builder, delta)),
            SelectSeq(c.delta_callbacks, LAMBDA dc : IsInstance(delta, dc.delta_class)),
            delta),
        SelectSeq(c.delta_callbacks, LAMBDA dc : IsInstance(delta, dc.delta_class)),
        delta)

\* index of the first queued delta whose parent is last_applied_delta_id, 0 if none
FirstReplayable(c) ==
    LET ok(i) == c.unapplied_deltas[i].parent_delta_id = c.builder.last_applied_delta_id
    IN  IF \E i \in 1..Len(c.unapplied_deltas) : ok(i)
        THEN CHOOSE i \in 1..Len(c.unapplied_deltas) :
                ok(i) /\ \A j \in 1..(i-1) : ~ok(j)
        ELSE 0

\* the body of the loop of replay_unapplied_deltas for a matching delta:
\* apply it and remove it from unapplied_deltas
\* ids of the deltas in the queue that have the parent of the delta a replay
\* applies and are not that delta
PassedOver(q, delta) ==
    {q[i].id : i \in {j \in 1..Len(q) : q[j].parent_delta_id = delta.parent_delta_id
                                         /\ q[j] # delta}}

ReplayOne(c, delta) ==
    [apply_delta(c, delta, "replay") EXCEPT
        !.unapplied_deltas = Remove(@, delta),
        !.passed_over = @ \cup PassedOver(c.unapplied_deltas, delta)]

\* faulty variant of replay_unapplied_deltas: one pass without the recursion
replay_once(c) ==
    IF FirstReplayable(c) = 0 THEN c
    ELSE ReplayOne(c, c.unapplied_deltas[FirstReplayable(c)])

\* RTUClient.replay_unapplied_deltas
RECURSIVE replay_unapplied_deltas(_)
replay_unapplied_deltas(c) ==
    IF FirstReplayable(c) = 0 THEN c
    ELSE replay_unapplied_deltas(ReplayOne(c, c.unapplied_deltas[FirstReplayable(c)]))

\* faulty variant of queue_or_apply_delta: the parent is not compared
queue_or_apply_delta_unchecked(c, delta, via) ==
    IF c.builder.last_applied_delta_id = NoDelta
    THEN apply_delta(c, delta, via)
    ELSE replay_unapplied_deltas(apply_delta(c, delta, via))

\* RTUClient.queue_or_apply_delta
queue_or_apply_delta(c, delta, via) ==
    IF c.builder.last_applied_delta_id = NoDelta
    THEN apply_delta(c, delta, via)
    ELSE IF delta.parent_delta_id = c.builder.last_applied_delta_id
    THEN replay_unapplied_deltas(apply_delta(c, delta, via))
    ELSE [c EXCEPT !.unapplied_deltas = Append(@, delta)]

\* faulty variant of the deltas_to_apply loop: only the first delta is handled
ApplyDeltasToApplyFirst(c, deltas) ==
    IF deltas = <<>> THEN c
    ELSE queue_or_apply_delta(c, Head(deltas), "catchup")

\* the loop of _on_file_subscribe_reply over msg.data.deltas_to_apply
RECURSIVE ApplyDeltasToApply(_, _)
ApplyDeltasToApply(c, deltas) ==
    IF deltas = <<>> THEN c
    ELSE ApplyDeltasToApply(queue_or_apply_delta(c, Head(deltas), "catchup"), Tail(deltas))

\* FileSubscribeRequestData with its exactly_one_field validator
FileSubscribeRequestData(from_version_id, from_delta_id) ==
    [event |-> "subscribe_request", from_version_id |-> from_version_id,
     from_delta_id |-> from_delta_id,
     valid |-> (from_version_id # NoVersion) # (from_delta_id # NoDelta)]

\* asyncio.create_task(self.on_file_subscribe_timeout()) assigned to
\* file_subscribe_timeout_task: a task that was sleeping under that name
\* keeps sleeping, and nothing refers to it any more
create_timeout_task(c) ==
    [c EXCEPT !.orphan_timeout_tasks =
                  IF c.file_subscribe_timeout_task = "pending" THEN @ + 1 ELSE @,
              !.file_subscribe_timeout_task = "pending"]

\* RTUClient.send_file_subscribe (origami/clients/rtu.py)
send_file_subscribe(c, version) ==
    LET last == c.builder.last_applied_delta_id
        req  == IF last # NoDelta /\ last # NULL_PARENT_DELTA_SENTINEL
                THEN FileSubscribeRequestData(NoVersion, last)
                ELSE FileSubscribeRequestData(version, NoDelta)
    IN  [create_timeout_task(c) EXCEPT !.stepSent = Append(@, req)]

\* RTUClient.send_file_subscribe of the earlier revision
\* (origami/rtu_client/client.py): any non-None last_applied_delta_id is sent
legacy_send_file_subscribe(c, version) ==
    LET last == c.builder.last_applied_delta_id
        req  == IF last # NoDelta
                THEN FileSubscribeRequestData(NoVersion, last)
                ELSE FileSubscribeRequestData(version, NoDelta)
    IN  [c EXCEPT !.stepSent = Append(@, req)]

(***************************************************************************)
(* Actions of the RTU client (origami/clients/rtu.py)                      *)
(***************************************************************************)
\* write the client record back
Commit(c) ==
    /\ builder' = c.builder
    /\ unapplied_deltas' = c.unapplied_deltas
    /\ delta_callbacks' = c.delta_callbacks
    /\ registry' = c.registry
    /\ submissions' = c.submissions
    /\ applied' = c.applied
    /\ seeded' = c.seeded
    /\ stepApplies' = c.stepApplies
    /\ stepSent' = c.stepSent
    /\ stepErrors' = c.stepErrors
    /\ stepMsg' = c.stepMsg
    /\ file_subscribe_timeout_task' = c.file_subscribe_timeout_task
    /\ orphan_timeout_tasks' = c.orphan_timeout_tasks
    /\ execute_cell_events' = c.execute_cell_events
    /\ cell_states' = c.cell_states
    /\ kernel_state' = c.kernel_state
    /\ stepFutures' = c.stepFutures
    /\ stepCallbacks' = c.stepCallbacks
    /\ trackers' = c.trackers
    /\ transaction_callbacks' = c.transaction_callbacks
    /\ type_callbacks' = c.type_callbacks
    /\ process_task_loop' = c.process_task_loop
    /\ stepInvoked' = c.stepInvoked
    /\ passed_over' = c.passed_over
    /\ squash_calls' = c.squash_calls

\* RTUClient.initialize: load_seed_notebook, then manager.initialize, which
\* starts the workers and returns.  Without a current version id
\* load_seed_notebook ends in catastrophic_failure, which raises.
Initialize(version, seed) ==
    /\ initPc = "new"
    /\ lastStep' = "Initialize"
    /\ IF version = NoVersion
       THEN /\ initPc' = "failed"
            /\ Commit([Client EXCEPT !.stepErrors = <<"RuntimeError">>])
            /\ UNCHANGED <<file_version_id, ws>>
       ELSE /\ initPc' = "initialized"
            /\ file_version_id' = version
            /\ ws' = "connecting"
            /\ Commit([Client EXCEPT !.builder = NewBuilder(seed)])
    /\ UNCHANGED <<deltas_to_apply_event, pendingSubs, subscribed, nmsgs, nevents, ndisc,
                   nreloads, caughtUp, scenario, reply_ids, calls>>

\* the websocket is (re)connected: connect_hook, then auth_hook writes the
\* authenticate_request to the raw connection
Connect ==
    /\ ws = "connecting"
    /\ ws' = "unauth"
    /\ lastStep' = "Connect"
    /\ Commit(Client)
    /\ UNCHANGED <<file_version_id, deltas_to_apply_event, pendingSubs, subscribed, initPc,
                   nmsgs, nevents, ndisc, nreloads, caughtUp, scenario, reply_ids, calls>>

\* RTUClient._on_auth
RecvAuthReply(success) ==
    /\ ws = "unauth"
    /\ nmsgs' = nmsgs + 1
    /\ lastStep' = "RecvAuthReply"
    /\ IF success
       THEN /\ ws' = "authed"
            /\ Commit(send_file_subscribe(Client, file_version_id))
            /\ pendingSubs' = pendingSubs + 1
            /\ subscribed' = TRUE
       ELSE /\ Commit(Client)
            /\ UNCHANGED <<ws, pendingSubs, subscribed>>
    /\ UNCHANGED <<file_version_id, deltas_to_apply_event, initPc, nevents, ndisc, nreloads,
                   caughtUp, scenario, reply_ids, calls>>

\* Scenario A: the arrival order D2, D5, D4, D3, D1
ScenarioA == <<ChainDelta(2), ChainDelta(5), ChainDelta(4), ChainDelta(3), ChainDelta(1)>>

\* how far the arrivals follow ScenarioA after the deltas ds arrived
RECURSIVE Arrived(_, _)
Arrived(k, ds) ==
    IF ds = <<>> THEN k
    ELSE IF k >= 0 /\ k < Len(ScenarioA) /\ Head(ds) = ScenarioA[k + 1]
    THEN Arrived(k + 1, Tail(ds))
    ELSE -1

\* `if not self.builder.last_applied_delta_id` of _on_file_subscribe_reply
SeedLastApplied(c, latest_delta_id) ==
    IF c.builder.last_applied_delta_id = NoDelta
    THEN [c EXCEPT !.builder.last_applied_delta_id = latest_delta_id,
                   !.seeded = latest_delta_id]
    ELSE c

\* self.file_subscribe_timeout_task.cancel(): a task that is done stays as it is
cancel_timeout_task(c) ==
    [c EXCEPT !.file_subscribe_timeout_task = IF @ = "pending" THEN "cancelled" ELSE @]

\* faulty variant of _on_file_subscribe_reply: last_applied_delta_id is not
\* seeded from latest_delta_id
on_file_subscribe_reply_unseeded(c, deltas, latest_delta_id) ==
    cancel_timeout_task(replay_unapplied_deltas(ApplyDeltasToApply(c, deltas)))

\* RTUClient._on_file_subscribe_reply
on_file_subscribe_reply(c, deltas, latest_delta_id) ==
    cancel_timeout_task(
        replay_unapplied_deltas(SeedLastApplied(ApplyDeltasToApply(c, deltas), latest_delta_id)))

RecvSubscribeReply(deltas, latest_delta_id) ==
    /\ ws = "authed"
    /\ pendingSubs > 0
    /\ nmsgs' = nmsgs + 1
    /\ lastStep' = "RecvSubscribeReply"
    /\ pendingSubs' = pendingSubs - 1
    /\ Commit(on_file_subscribe_reply(Client, deltas, latest_delta_id))
    /\ deltas_to_apply_event' = TRUE
    /\ caughtUp' = TRUE
    /\ reply_ids' = reply_ids \cup {deltas[i].id : i \in 1..Len(deltas)}
    /\ scenario' = Arrived(scenario, deltas)
    /\ UNCHANGED <<file_version_id, ws, subscribed, initPc, nevents, ndisc, nreloads, calls>>

\* the new_delta_event broadcasts the server may send: deltas of other
\* participants, and the deltas this client submitted with the parent the
\* server gave them
EventDeltas ==
    ChainDeltas \cup
    { [submissions[n].delta EXCEPT !.parent_delta_id = p] :
        n \in 1..Len(submissions), p \in BroadcastParents }

\* RTUClient._on_delta_recv
on_delta_recv(c, delta) ==
    IF ~deltas_to_apply_event
    THEN [c EXCEPT !.unapplied_deltas = Append(@, delta)]
    ELSE queue_or_apply_delta(c, delta, "event")

RecvNewDeltaEvent(delta) ==
    /\ ws = "authed"
    /\ subscribed
    /\ nmsgs' = nmsgs + 1
    /\ nevents' = nevents + 1
    /\ lastStep' = "RecvNewDeltaEvent"
    /\ Commit(on_delta_recv(Client, delta))
    /\ scenario' = Arrived(scenario, <<delta>>)
    /\ UNCHANGED <<file_version_id, deltas_to_apply_event, ws, pendingSubs, subscribed, initPc,
                   ndisc, nreloads, caughtUp, reply_ids, calls>>

\* RTUClient.file_unsubscribe
file_unsubscribe(c) == [c EXCEPT !.stepSent = Append(@, [event |-> "unsubscribe_request"])]

\* faulty variant of on_inconsistent_state_event: the builder is kept
on_inconsistent_state_event_stale(c, version, seed) ==
    send_file_subscribe(file_unsubscribe(c), version)

\* RTUClient.on_inconsistent_state_event when the file has a current version:
\* file_unsubscribe, load_seed_notebook (a builder from the new seed), then
\* send_file_subscribe
on_inconsistent_state_event(c, version, seed) ==
    send_file_subscribe(
        [file_unsubscribe(c) EXCEPT !.builder = NewBuilder(seed), !.applied = {},
                                    !.squash_calls = {}, !.seeded = NoDelta], version)

\* an inconsistent_state_event is received.  Without a current version id
\* load_seed_notebook ends in catastrophic_failure after the unsubscribe.
\* deltas_to_apply_event and unapplied_deltas are not reset.
RecvInconsistentState(version, seed) ==
    /\ ws = "authed"
    /\ subscribed
    /\ nmsgs' = nmsgs + 1
    /\ nreloads' = nreloads + 1
    /\ lastStep' = "RecvInconsistentState"
    /\ IF version = NoVersion
       THEN /\ ws' = "shutdown"
            /\ Commit([file_unsubscribe(Client) EXCEPT !.stepErrors = <<"RuntimeError">>])
            /\ UNCHANGED <<file_version_id, pendingSubs, caughtUp, scenario, reply_ids>>
       ELSE /\ file_version_id' = version
            /\ Commit(on_inconsistent_state_event(Client, version, seed))
            /\ pendingSubs' = pendingSubs + 1
            /\ caughtUp' = FALSE
            /\ scenario' = 0
            /\ reply_ids' = {}
            /\ ws' = ws
    /\ UNCHANGED <<deltas_to_apply_event, subscribed, initPc, nevents, ndisc, calls>>

\* the websocket drops; the manager reconnects (disconnect_hook)
Disconnect ==
    /\ ws \in {"unauth", "authed"}
    /\ ndisc' = ndisc + 1
    /\ ws' = "connecting"
    /\ pendingSubs' = 0
    /\ subscribed' = FALSE
    /\ lastStep' = "Disconnect"
    /\ Commit(Client)
    /\ UNCHANGED <<file_version_id, deltas_to_apply_event, initPc, nmsgs, nevents, nreloads,
                   caughtUp, scenario, reply_ids, calls>>

\* DeltaRequestCallbackManager.__init__ for the n-th request: it registers
\* the two callbacks and sends the new_delta_request
DeltaRequestCallbackManager(c, n, delta) ==
    [c EXCEPT !.submissions =
                  Append(@, [delta |-> delta, result |-> "pending", exc |-> None,
                             nreloads |-> nreloads, caught_up |-> caughtUp,
                             squashed_at_success |-> FALSE, last_at_success |-> NoDelta]),
              !.registry = @ \cup {n},
              !.delta_callbacks = Append(@, DeltaCb(n, delta)),
              !.stepSent = Append(@, [event |-> "new_delta_request", delta |-> delta])]

\* RTUClient.new_delta_request up to its await
new_delta_request(c, content) ==
    DeltaRequestCallbackManager(c, Len(c.submissions) + 1,
        Delta(SubmitId(Len(c.submissions) + 1), NoDelta, content.delta_type,
              content.delta_action, content.resource_id, content.properties))

\* the application calls a method that ends in new_delta_request
Submit(content) ==
    /\ initPc \in {"initialized", "realtime"}
    /\ ws # "shutdown"
    /\ lastStep' = "Submit"
    /\ Commit(new_delta_request(Client, content))
    /\ UNCHANGED <<file_version_id, deltas_to_apply_event, ws, pendingSubs, subscribed, initPc,
                   nmsgs, nevents, ndisc, nreloads, caughtUp, scenario, reply_ids, calls>>

\* events that reach a submission's transaction-id callback
TransactionEvents ==
    {"delta_rejected", "invalid_data", "permission_denied", "invalid_event", "new_delta_reply"}

ErrorEvents == {"delta_rejected", "invalid_data", "permission_denied"}

\* data.cause of a delta_rejected message
RejectCauses == {"out_of_date", "invalid_parent"}

\* the messages the server may send with a submission's transaction id
TransactionMsgs ==
    {[event |-> "delta_rejected", cause |-> k] : k \in RejectCauses} \cup
    {[event |-> e, cause |-> None] : e \in TransactionEvents \ {"delta_rejected"}}

\* self.result.set_exception(DeltaRejected(arg)); self.deregister_callbacks().
\* Future.set_exception raises InvalidStateError on a future that is already
\* done, and then deregister_callbacks is not reached
SetRejected(c, n, arg) ==
    IF c.submissions[n].result = "pending"
    THEN deregister_callbacks([c EXCEPT !.submissions[n].result = "rejected",
                                        !.submissions[n].exc = arg], n)
    ELSE [c EXCEPT !.stepErrors = Append(@, "InvalidStateError")]

\* faulty variant of rtu_cb: the cause of a delta_rejected is not carried
rtu_cb_no_cause(c, n, msg) ==
    IF msg.event \in ErrorEvents THEN SetRejected(c, n, "Delta rejected") ELSE c

\* DeltaRequestCallbackManager.rtu_cb of submission n
rtu_cb(c, n, msg) ==
    IF msg.event = "delta_rejected" THEN SetRejected(c, n, msg.cause)
    ELSE IF msg.event = "invalid_data" THEN SetRejected(c, n, "Invalid Delta scheme")
    ELSE IF msg.event = "permission_denied" THEN SetRejected(c, n, "Permission denied")
    ELSE c

\* the message and what it met: the submission it names, whether the
\* submission's callback was registered and the state of its future
Dispatched(c, n, msg) ==
    [c EXCEPT !.stepMsg = [sub |-> n, event |-> msg.event, cause |-> msg.cause,
                          registered |-> n \in c.registry,
                          result |-> c.submissions[n].result,
                          builder |-> c.builder]]

\* a message carrying the transaction id of submission n is dispatched
RecvTransactionEvent(n, msg) ==
    /\ ws = "authed"
    /\ n \in 1..Len(submissions)
    /\ nmsgs' = nmsgs + 1
    /\ lastStep' = "RecvTransactionEvent"
    /\ Commit(IF n \in registry THEN rtu_cb(Dispatched(Client, n, msg), n, msg)
              ELSE Dispatched(Client, n, msg))
    /\ UNCHANGED <<file_version_id, deltas_to_apply_event, ws, pendingSubs, subscribed, initPc,
                   nevents, ndisc, nreloads, caughtUp, scenario, reply_ids, calls>>

\* the task awaiting new_delta_request is cancelled (e.g. asyncio.wait_for
\* timed out), which cancels the future it awaits
CancelCaller(n) ==
    /\ n \in 1..Len(submissions)
    /\ submissions[n].result = "pending"
    /\ lastStep' = "CancelCaller"
    /\ Commit([Client EXCEPT !.submissions[n].result = "cancelled"])
    /\ UNCHANGED <<file_version_id, deltas_to_apply_event, ws, pendingSubs, subscribed, initPc,
                   nmsgs, nevents, ndisc, nreloads, caughtUp, scenario, reply_ids, calls>>

\* APIClient.connect_realtime returns: initialize() returned and
\* deltas_to_apply_event.wait() completed
ConnectRealtimeReturn ==
    /\ initPc = "initialized"
    /\ deltas_to_apply_event
    /\ initPc' = "realtime"
    /\ lastStep' = "ConnectRealtimeReturn"
    /\ Commit(Client)
    /\ UNCHANGED <<file_version_id, deltas_to_apply_event, ws, pendingSubs, subscribed,
                   nmsgs, nevents, ndisc, nreloads, caughtUp, scenario, reply_ids, calls>>

Init ==
    /\ builder = NoBuilder
    /\ file_version_id = NoVersion
    /\ unapplied_deltas = <<>>
    /\ deltas_to_apply_event = FALSE
    /\ delta_callbacks = <<>>
    /\ registry = {}
    /\ submissions = <<>>
    /\ ws = "down"
    /\ pendingSubs = 0
    /\ subscribed = FALSE
    /\ initPc = "new"
    /\ nmsgs = 0
    /\ nevents = 0
    /\ ndisc = 0
    /\ nreloads = 0
    /\ caughtUp = FALSE
    /\ applied = {}
    /\ seeded = NoDelta
    /\ scenario = 0
    /\ reply_ids = {}
    /\ stepApplies = <<>>
    /\ stepSent = <<>>
    /\ stepErrors = <<>>
    /\ lastStep = "Init"
    /\ calls = <<>>
    /\ stepMsg = NoMsg
    /\ file_subscribe_timeout_task = None
    /\ orphan_timeout_tasks = 0
    /\ execute_cell_events = NoExecutions
    /\ cell_states = NoCellStates
    /\ kernel_state = "not_started"
    /\ stepFutures = <<>>
    /\ stepCallbacks = <<>>
    /\ trackers = <<>>
    /\ transaction_callbacks = NoTransactionCallbacks
    /\ type_callbacks = NoTypeCallbacks
    /\ process_task_loop = None
    /\ stepInvoked = <<>>
    /\ passed_over = {}
    /\ squash_calls = {}

\* the session without submissions: startup, catch-up, delta events, reload
\* and reconnect.  A caller waiting in connect_realtime resumes at the first
\* suspension after deltas_to_apply_event is set, which is before
\* load_seed_notebook of a reload returns.
Next ==
    \/ \E version \in {NoVersion, FileVersion}, seed \in Seeds : Initialize(version, seed)
    \/ Connect
    \/ nmsgs < MaxMsgs /\ \E success \in BOOLEAN : RecvAuthReply(success)
    \/ /\ nmsgs < MaxMsgs
       /\ \E deltas \in ReplyLists, latest \in LatestIds : RecvSubscribeReply(deltas, latest)
    \/ /\ nmsgs < MaxMsgs
       /\ nevents < MaxDeltaEvents
       /\ \E delta \in ChainDeltas : RecvNewDeltaEvent(delta)
    \/ /\ nmsgs < MaxMsgs
       /\ nreloads < MaxReloads
       /\ ~(initPc = "initialized" /\ deltas_to_apply_event)
       /\ \E version \in {NoVersion, FileVersion}, seed \in Seeds :
            RecvInconsistentState(version, seed)
    \/ ndisc < MaxDisconnects /\ Disconnect
    \/ ConnectRealtimeReturn

Spec == Init /\ [][Next]_vars

\* deltas_to_apply lists of the subscribe_reply in a session with submissions
SubmitReplyLists == {<<>>, <<ChainDelta(1)>>}

\* a session with delta submissions: startup, catch-up, the broadcasts of the
\* submitted deltas and of two other deltas, the replies on the submission's
\* transaction id, and cancellation of the caller
NextSubmit ==
    \/ \E seed \in Seeds : Initialize(FileVersion, seed)
    \/ Connect
    \/ nmsgs < MaxMsgs /\ RecvAuthReply(TRUE)
    \/ /\ nmsgs < MaxMsgs
       /\ \E deltas \in SubmitReplyLists : RecvSubscribeReply(deltas, NULL_PARENT_DELTA_SENTINEL)
    \/ /\ nmsgs < MaxMsgs
       /\ nevents < MaxDeltaEvents
       /\ \E delta \in EventDeltas \ {ChainDelta(i) : i \in 3..ChainLen} :
            RecvNewDeltaEvent(delta)
    \/ Len(submissions) < MaxSubmissions /\ \E content \in SubmitContents : Submit(content)
    \/ /\ nmsgs < MaxMsgs
       /\ \E n \in 1..MaxSubmissions, msg \in TransactionMsgs : RecvTransactionEvent(n, msg)
    \/ \E n \in 1..MaxSubmissions : CancelCaller(n)
    \/ ConnectRealtimeReturn

SpecSubmit == Init /\ [][NextSubmit]_vars

\* submissions in one run of the session with rejected submissions
MaxSessionSubmissions == 2

\* server messages in one run of the session with rejected submissions
MaxSessionMsgs == 4

\* a session in which the application submits deltas once connect_realtime
\* returned; the server answers them with errors or broadcasts them, and the
\* deltas of other participants arrive
NextSession ==
    \/ Initialize(FileVersion, Seed(<<Cell("c1", "code", "x")>>))
    \/ Connect
    \/ nmsgs < MaxSessionMsgs /\ RecvAuthReply(TRUE)
    \/ /\ nmsgs < MaxSessionMsgs
       /\ \E deltas \in SubmitReplyLists : RecvSubscribeReply(deltas, NULL_PARENT_DELTA_SENTINEL)
    \/ ConnectRealtimeReturn
    \/ /\ nmsgs < MaxSessionMsgs
       /\ nevents < MaxDeltaEvents
       /\ \E delta \in EventDeltas \ {ChainDelta(i) : i \in 3..ChainLen} :
            RecvNewDeltaEvent(delta)
    \/ /\ Len(submissions) < MaxSessionSubmissions
       /\ initPc = "realtime"
       /\ \E content \in SubmitContents : Submit(content)
    \/ /\ nmsgs < MaxSessionMsgs
       /\ \E n \in 1..MaxSessionSubmissions, msg \in TransactionMsgs :
            RecvTransactionEvent(n, msg)

SpecSession == Init /\ [][NextSession]_vars

\* RTUClient.register_delta_callback
register_delta_callback(c, delta_class, fn) ==
    [c EXCEPT !.delta_callbacks = Append(@, [sub |-> fn, delta_class |-> delta_class])]

\* the application registers a delta callback
RegisterDeltaCallback(delta_class, fn) ==
    /\ lastStep' = "RegisterDeltaCallback"
    /\ Commit(register_delta_callback(Client, delta_class, fn))
    /\ UNCHANGED <<file_version_id, deltas_to_apply_event, ws, pendingSubs, subscribed, initPc,
                   nmsgs, nevents, ndisc, nreloads, caughtUp, scenario, reply_ids, calls>>

\* delta callbacks registered in one run of the session with delta callbacks
MaxDeltaCallbacks == 2

\* server messages in one run of the session with delta callbacks
MaxCallbackMsgs == 4

\* delta classes the application registers callbacks for
CallbackClasses == {<<"nb_metadata", "update">>, <<"cell_contents", "replace">>}

\* a session in which the application registers delta callbacks, one of which
\* raises, and submits a delta, while deltas of other participants arrive in
\* and out of order
NextCallbacks ==
    \/ Initialize(FileVersion, Seed(<<Cell("c1", "code", "x")>>))
    \/ Connect
    \/ nmsgs < MaxCallbackMsgs /\ RecvAuthReply(TRUE)
    \/ nmsgs < MaxCallbackMsgs /\ RecvSubscribeReply(<<>>, NULL_PARENT_DELTA_SENTINEL)
    \/ ConnectRealtimeReturn
    \/ /\ Len(delta_callbacks) < MaxDeltaCallbacks
       /\ \E delta_class \in CallbackClasses, fn \in AppCallbacks :
            RegisterDeltaCallback(delta_class, fn)
    \/ /\ nmsgs < MaxCallbackMsgs
       /\ nevents < MaxDeltaEvents
       /\ \E delta \in EventDeltas \ {ChainDelta(i) : i \in 3..ChainLen} :
            RecvNewDeltaEvent(delta)
    \/ /\ Len(submissions) < MaxSubmissions
       /\ Len(delta_callbacks) < MaxDeltaCallbacks
       /\ initPc = "realtime"
       /\ \E content \in SubmitContents : Submit(content)

SpecCallbacks == Init /\ [][NextCallbacks]_vars

\* a session with a reload: the server sends an inconsistent_state_event, the
\* file then has a newer current version, and the application submits a delta
\* once connect_realtime returned
NextResync ==
    \/ \E seed \in Seeds : Initialize(FileVersion, seed)
    \/ Connect
    \/ nmsgs < MaxMsgs /\ RecvAuthReply(TRUE)
    \/ /\ nmsgs < MaxMsgs
       /\ \E deltas \in SubmitReplyLists : RecvSubscribeReply(deltas, NULL_PARENT_DELTA_SENTINEL)
    \/ ConnectRealtimeReturn
    \/ /\ nmsgs < MaxMsgs
       /\ nevents < MaxDeltaEvents
       /\ \E delta \in EventDeltas \ {ChainDelta(i) : i \in 3..ChainLen} :
            RecvNewDeltaEvent(delta)
    \/ /\ nmsgs < MaxMsgs
       /\ nreloads < MaxReloads
       /\ ~(initPc = "initialized" /\ deltas_to_apply_event)
       /\ \E seed \in Seeds : RecvInconsistentState(NewFileVersion, seed)
    \/ /\ Len(submissions) < MaxSubmissions
       /\ initPc = "realtime"
       /\ \E content \in SubmitContents : Submit(content)

SpecResync == Init /\ [][NextResync]_vars

\* RTUClient.on_file_subscribe_timeout of the task file_subscribe_timeout_task
\* refers to: the sleep ended before a subscribe_reply cancelled the task; it
\* logs and raises RuntimeError inside the task, which nothing awaits
SubscribeTimeout ==
    /\ file_subscribe_timeout_task = "pending"
    /\ lastStep' = "SubscribeTimeout"
    /\ Commit([Client EXCEPT !.file_subscribe_timeout_task = "raised",
                             !.stepErrors = <<"RuntimeError">>])
    /\ UNCHANGED <<file_version_id, deltas_to_apply_event, ws, pendingSubs, subscribed, initPc,
                   nmsgs, nevents, ndisc, nreloads, caughtUp, scenario, reply_ids, calls>>

\* RTUClient.on_file_subscribe_timeout of a task created by an earlier
\* send_file_subscribe: no subscribe_reply cancels it
OrphanTimeout ==
    /\ orphan_timeout_tasks > 0
    /\ lastStep' = "OrphanTimeout"
    /\ Commit([Client EXCEPT !.orphan_timeout_tasks = @ - 1,
                             !.stepErrors = <<"RuntimeError">>])
    /\ UNCHANGED <<file_version_id, deltas_to_apply_event, ws, pendingSubs, subscribed, initPc,
                   nmsgs, nevents, ndisc, nreloads, caughtUp, scenario, reply_ids, calls>>

\* RTUClient.shutdown: manager.shutdown, which closes the websocket and ends
\* the manager's workers
Shutdown ==
    /\ initPc \in {"initialized", "realtime"}
    /\ ws # "shutdown"
    /\ ws' = "shutdown"
    /\ lastStep' = "Shutdown"
    /\ Commit(Client)
    /\ UNCHANGED <<file_version_id, deltas_to_apply_event, pendingSubs, subscribed, initPc,
                   nmsgs, nevents, ndisc, nreloads, caughtUp, scenario, reply_ids, calls>>

\* the life cycle of the client: startup, catch-up, reconnects, subscribe
\* timeouts and shutdown at any point
NextLifecycle ==
    \/ Initialize(FileVersion, Seed(<<>>))
    \/ Connect
    \/ nmsgs < MaxMsgs /\ RecvAuthReply(TRUE)
    \/ /\ nmsgs < MaxMsgs
       /\ \E deltas \in SubmitReplyLists : RecvSubscribeReply(deltas, NULL_PARENT_DELTA_SENTINEL)
    \/ /\ nmsgs < MaxMsgs
       /\ nevents < MaxDeltaEvents
       /\ \E delta \in {ChainDelta(1), ChainDelta(2)} : RecvNewDeltaEvent(delta)
    \/ ndisc < MaxDisconnects /\ Disconnect
    \/ ConnectRealtimeReturn
    \/ SubscribeTimeout
    \/ OrphanTimeout
    \/ Shutdown

SpecLifecycle == Init /\ [][NextLifecycle]_vars

\* str.strip() of the cell sources used here
Strip(source) == IF source \in {"", " ", "  "} THEN "" ELSE source

\* the body of the loop of queue_execution: a future is kept for a code cell
\* with something in its source, replacing an earlier one for that cell id
CreateExecuteFuture(c, cell_id, cell) ==
    IF cell.cell_type = "code" /\ Strip(cell.source) # ""
    THEN [c EXCEPT !.execute_cell_events[cell_id] =
                        [state |-> "pending", cell |-> NoCell, by |-> None],
                   !.stepFutures = Append(@, cell_id)]
    ELSE c

\* the loop of queue_execution over cell_ids; builder.get_cell raises
\* CellNotFound for an id that is not in the notebook
RECURSIVE CreateExecuteFutures(_, _)
CreateExecuteFutures(c, cell_ids) ==
    IF cell_ids = <<>> THEN c
    ELSE IF get_cell(c.builder.cells, Head(cell_ids)) = 0
    THEN [c EXCEPT !.stepErrors = Append(@, "CellNotFound")]
    ELSE CreateExecuteFutures(
            CreateExecuteFuture(c, Head(cell_ids),
                                c.builder.cells[get_cell(c.builder.cells, Head(cell_ids))]),
            Tail(cell_ids))

\* RTUClient.cell_ids
cell_ids(cells) == [i \in 1..Len(cells) |-> cells[i].id]

\* arguments of queue_execution
ExecArgs(cell_id, before_id, after_id, run_all) ==
    [cell_id |-> cell_id, before_id |-> before_id, after_id |-> after_id, run_all |-> run_all]

\* the cell ids queue_execution selects (indices here are 1-based)
SelectedCellIds(cells, args) ==
    IF Truthy(args.cell_id) THEN <<args.cell_id>>
    ELSE IF Truthy(args.before_id)
    THEN SubSeq(cell_ids(cells), 1, get_cell(cells, args.before_id))
    ELSE IF Truthy(args.after_id)
    THEN SubSeq(cell_ids(cells), get_cell(cells, args.after_id), Len(cells))
    ELSE cell_ids(cells)

\* the cell_execute delta queue_execution builds
ExecuteContent(args) ==
    IF Truthy(args.cell_id)
    THEN [delta_type |-> "cell_execute", delta_action |-> "execute",
          resource_id |-> args.cell_id, properties |-> NoProps]
    ELSE IF Truthy(args.before_id)
    THEN [delta_type |-> "cell_execute", delta_action |-> "execute_before",
          resource_id |-> args.before_id, properties |-> NoProps]
    ELSE IF Truthy(args.after_id)
    THEN [delta_type |-> "cell_execute", delta_action |-> "execute_after",
          resource_id |-> args.after_id, properties |-> NoProps]
    ELSE [delta_type |-> "cell_execute", delta_action |-> "execute_all",
          resource_id |-> NULL_RESOURCE_SENTINEL, properties |-> NoProps]

\* `await self.new_delta_request(delta)` after the loop, which is not reached
\* when the loop raised
SendExecute(c, content) ==
    IF c.stepErrors # <<>> THEN c ELSE new_delta_request(c, content)

\* faulty variant of queue_execution: the kernel state is not looked at
queue_execution_any_kernel(c, args) ==
    IF ~Truthy(args.cell_id) /\ ~Truthy(args.before_id) /\ ~Truthy(args.after_id)
       /\ ~args.run_all
    THEN [c EXCEPT !.stepErrors = <<"ValueError">>]
    ELSE SendExecute(CreateExecuteFutures(c, SelectedCellIds(c.builder.cells, args)),
                     ExecuteContent(args))

\* RTUClient.queue_execution up to the await of new_delta_request
queue_execution(c, args) ==
    IF ~Truthy(args.cell_id) /\ ~Truthy(args.before_id) /\ ~Truthy(args.after_id)
       /\ ~args.run_all
    THEN [c EXCEPT !.stepErrors = <<"ValueError">>]
    ELSE IF c.kernel_state = "not_started"
    THEN [c EXCEPT !.stepErrors = <<"RuntimeError">>]
    ELSE IF /\ ~Truthy(args.cell_id)
            /\ \/ Truthy(args.before_id) /\ get_cell(c.builder.cells, args.before_id) = 0
               \/ /\ ~Truthy(args.before_id)
                  /\ Truthy(args.after_id)
                  /\ get_cell(c.builder.cells, args.after_id) = 0
    THEN [c EXCEPT !.stepErrors = <<"CellNotFound">>]
    ELSE SendExecute(CreateExecuteFutures(c, SelectedCellIds(c.builder.cells, args)),
                     ExecuteContent(args))

\* the application calls queue_execution
QueueExecution(args) ==
    /\ initPc \in {"initialized", "realtime"}
    /\ ws # "shutdown"
    /\ lastStep' = "QueueExecution"
    /\ Commit(queue_execution(Client, args))
    /\ UNCHANGED <<file_version_id, deltas_to_apply_event, ws, pendingSubs, subscribed, initPc,
                   nmsgs, nevents, ndisc, nreloads, caughtUp, scenario, reply_ids, calls>>

\* RTUClient.on_kernel_status_update
on_kernel_status_update(c, execution_state) == [c EXCEPT !.kernel_state = execution_state]

\* a kernel_status_update_event is received
RecvKernelStatusUpdate(execution_state) ==
    /\ ws = "authed"
    /\ nmsgs' = nmsgs + 1
    /\ lastStep' = "RecvKernelStatusUpdate"
    /\ Commit(on_kernel_status_update(Client, execution_state))
    /\ UNCHANGED <<file_version_id, deltas_to_apply_event, ws, pendingSubs, subscribed, initPc,
                   nevents, ndisc, nreloads, caughtUp, scenario, reply_ids, calls>>

\* states of CellState (origami/types/deltas.py)
CellStates ==
    {"not_run", "queued", "executing", "finished_with_no_error", "finished_with_error",
     "catastrophic_failure", "dequeued", "interrupted"}

\* CellState.is_terminal_state
is_terminal_state(state) ==
    state \in {"not_run", "finished_with_no_error", "finished_with_error",
               "catastrophic_failure", "dequeued", "interrupted"}

\* fut.set_result(cell), or fut.set_exception(CellNotFound) when the cell is
\* no longer in the notebook
ResolveExecuteFuture(c, item, index) ==
    [c EXCEPT !.execute_cell_events[item.cell_id] =
        IF index = 0
        THEN [state |-> "exception", cell |-> NoCell, by |-> item.state]
        ELSE [state |-> "result", cell |-> c.builder.cells[index], by |-> item.state]]

\* the body of the loop of on_bulk_cell_state_update for one item
UpdateCellState(c, item) ==
    [(IF /\ c.execute_cell_events[item.cell_id].state # "absent"
         /\ item.state \in {"finished_with_error", "finished_with_no_error"}
         /\ c.execute_cell_events[item.cell_id].state = "pending"
      THEN ResolveExecuteFuture(c, item, get_cell(c.builder.cells, item.cell_id))
      ELSE c)
     EXCEPT !.cell_states[item.cell_id] = item.state]

RECURSIVE UpdateCellStates(_, _)
UpdateCellStates(c, items) ==
    IF items = <<>> THEN c
    ELSE UpdateCellStates(UpdateCellState(c, Head(items)), Tail(items))

\* RTUClient.on_bulk_cell_state_update
on_bulk_cell_state_update(c, items) ==
    UpdateCellStates([c EXCEPT !.cell_states = NoCellStates], items)

\* a bulk_cell_state_update_event is received
RecvBulkCellStateUpdate(items) ==
    /\ ws = "authed"
    /\ nmsgs' = nmsgs + 1
    /\ lastStep' = "RecvBulkCellStateUpdate"
    /\ Commit(on_bulk_cell_state_update(Client, items))
    /\ UNCHANGED <<file_version_id, deltas_to_apply_event, ws, pendingSubs, subscribed, initPc,
                   nevents, ndisc, nreloads, caughtUp, scenario, reply_ids, calls>>

\* execution requests in one run
MaxExecutions == 2

\* server messages in one run of the session with executions
MaxExecuteMsgs == 5

\* the notebook of the session with executions: two code cells, one of them
\* without source, and a markdown cell
ExecSeed ==
    Seed(<<Cell("c1", "code", "x"), Cell("c2", "code", " "), Cell("c3", "markdown", "y")>>)

\* another participant deletes cell c1
DeleteDelta ==
    Delta(1, NULL_PARENT_DELTA_SENTINEL, "nb_cells", "delete", NULL_RESOURCE_SENTINEL,
          [NoProps EXCEPT !.id = "c1"])

\* cell_states lists of a bulk_cell_state_update_event
BulkUpdates ==
    {<<[cell_id |-> cell, state |-> state]>> : cell \in {"c1", "c2"}, state \in CellStates}
    \cup {<<[cell_id |-> "c1", state |-> "executing"], [cell_id |-> "c1", state |-> state]>> :
            state \in CellStates}

\* a session in which the application queues cell executions and the kernel
\* reports cell states
NextExecute ==
    \/ Initialize(FileVersion, ExecSeed)
    \/ Connect
    \/ nmsgs < MaxExecuteMsgs /\ RecvAuthReply(TRUE)
    \/ nmsgs < MaxExecuteMsgs /\ RecvSubscribeReply(<<>>, NULL_PARENT_DELTA_SENTINEL)
    \/ ConnectRealtimeReturn
    \/ nmsgs < MaxExecuteMsgs /\ kernel_state = "not_started" /\ RecvKernelStatusUpdate("idle")
    \/ /\ Len(submissions) < MaxExecutions
       /\ initPc = "realtime"
       /\ kernel_state # "not_started"
       /\ \E cell_id \in ExecCells : QueueExecution(ExecArgs(cell_id, None, None, FALSE))
    \/ /\ nmsgs < MaxExecuteMsgs
       /\ nevents < MaxDeltaEvents
       /\ RecvNewDeltaEvent(DeleteDelta)
    \/ /\ nmsgs < MaxExecuteMsgs
       /\ \E items \in BulkUpdates : RecvBulkCellStateUpdate(items)

SpecExecute == Init /\ [][NextExecute]_vars

\* server messages in one run of the session that queues executions
MaxQueueMsgs == 4

\* execution requests sent in one run of the session that queues executions
MaxQueued == 1

\* notebooks of the session that queues executions: code, markdown, code (the
\* notebook of test_run_all); a code cell without source and a raw cell; two
\* cells with one id
QueueSeeds ==
    {Seed(<<Cell("c1", "code", "x"), Cell("c2", "markdown", "y"), Cell("c3", "code", "z")>>),
     Seed(<<Cell("c1", "code", "x"), Cell("c2", "code", " "), Cell("c3", "raw", "r")>>),
     Seed(<<Cell("c2", "code", "x"), Cell("c2", "raw", "w")>>)}

\* arguments the application passes to queue_execution
QueueArgs ==
    {ExecArgs(cell_id, before_id, after_id, run_all) :
        cell_id \in {None, "c1"}, before_id \in {None, "c2"},
        after_id \in {None, "c2"}, run_all \in BOOLEAN}
    \cup {ExecArgs("c9", None, None, FALSE), ExecArgs(None, None, "c9", FALSE)}

\* kernel execution states of a kernel_status_update_event
KernelStates == {"not_started", "idle"}

\* a session in which the application queues executions of cells and ranges
\* of cells, before and after the kernel started
NextQueue ==
    \/ \E seed \in QueueSeeds : Initialize(FileVersion, seed)
    \/ Connect
    \/ nmsgs < MaxQueueMsgs /\ RecvAuthReply(TRUE)
    \/ nmsgs < MaxQueueMsgs /\ RecvSubscribeReply(<<>>, NULL_PARENT_DELTA_SENTINEL)
    \/ ConnectRealtimeReturn
    \/ /\ nmsgs < MaxQueueMsgs
       /\ \E execution_state \in KernelStates : RecvKernelStatusUpdate(execution_state)
    \/ /\ Len(submissions) < MaxQueued
       /\ \E args \in QueueArgs : QueueExecution(args)

SpecQueue == Init /\ [][NextQueue]_vars

\* a new_delta_event the server has not sent before
NotSeen(delta) ==
    /\ delta.id \notin applied
    /\ \A i \in 1..Len(unapplied_deltas) : unapplied_deltas[i].id # delta.id

\* the ordering scenario: one connection, a server that broadcasts each delta
\* of the chain once, in any order, and one subscribe_reply at any point
NextScenario ==
    \/ Initialize(FileVersion, Seed(<<>>))
    \/ Connect
    \/ RecvAuthReply(TRUE)
    \/ \E deltas \in {<<>>, ScenarioA}, latest \in {0, 1} : RecvSubscribeReply(deltas, latest)
    \/ /\ nevents < MaxScenarioEvents
       /\ \E delta \in ChainDeltas : NotSeen(delta) /\ RecvNewDeltaEvent(delta)
    \/ ConnectRealtimeReturn

SpecScenario == Init /\ [][NextScenario]_vars

(***************************************************************************)
(* The earlier RTUClient revision (origami/rtu_client/client.py).  Its     *)
(* builder and file version id are constructor arguments; its sequencer    *)
(* and subscribe_reply handler are line for line those of the new one.    *)
(***************************************************************************)
\* RTUClient.initialize of the earlier revision: manager.initialize only
LegacyInitialize ==
    /\ initPc = "new"
    /\ initPc' = "initialized"
    /\ ws' = "connecting"
    /\ lastStep' = "LegacyInitialize"
    /\ Commit(Client)
    /\ UNCHANGED <<file_version_id, deltas_to_apply_event, pendingSubs, subscribed, nmsgs,
                   nevents, ndisc, nreloads, caughtUp, scenario, reply_ids, calls>>

\* RTUClient._on_auth of the earlier revision
LegacyRecvAuthReply(success) ==
    /\ ws = "unauth"
    /\ nmsgs' = nmsgs + 1
    /\ lastStep' = "LegacyRecvAuthReply"
    /\ IF success
       THEN /\ ws' = "authed"
            /\ Commit(legacy_send_file_subscribe(Client, file_version_id))
            /\ pendingSubs' = pendingSubs + 1
            /\ subscribed' = TRUE
       ELSE /\ Commit(Client)
            /\ UNCHANGED <<ws, pendingSubs, subscribed>>
    /\ UNCHANGED <<file_version_id, deltas_to_apply_event, initPc, nevents, ndisc, nreloads,
                   caughtUp, scenario, reply_ids, calls>>

\* the application built the client from a downloaded seed and its version id
InitLegacy ==
    /\ builder \in {NewBuilder(seed) : seed \in Seeds}
    /\ file_version_id = FileVersion
    /\ unapplied_deltas = <<>>
    /\ deltas_to_apply_event = FALSE
    /\ delta_callbacks = <<>>
    /\ registry = {}
    /\ submissions = <<>>
    /\ ws = "down"
    /\ pendingSubs = 0
    /\ subscribed = FALSE
    /\ initPc = "new"
    /\ nmsgs = 0
    /\ nevents = 0
    /\ ndisc = 0
    /\ nreloads = 0
    /\ caughtUp = FALSE
    /\ applied = {}
    /\ seeded = NoDelta
    /\ scenario = 0
    /\ reply_ids = {}
    /\ stepApplies = <<>>
    /\ stepSent = <<>>
    /\ stepErrors = <<>>
    /\ lastStep = "Init"
    /\ calls = <<>>
    /\ stepMsg = NoMsg
    /\ file_subscribe_timeout_task = None
    /\ orphan_timeout_tasks = 0
    /\ execute_cell_events = NoExecutions
    /\ cell_states = NoCellStates
    /\ kernel_state = "not_started"
    /\ stepFutures = <<>>
    /\ stepCallbacks = <<>>
    /\ trackers = <<>>
    /\ transaction_callbacks = NoTransactionCallbacks
    /\ type_callbacks = NoTypeCallbacks
    /\ process_task_loop = None
    /\ stepInvoked = <<>>
    /\ passed_over = {}
    /\ squash_calls = {}

NextLegacy ==
    \/ LegacyInitialize
    \/ Connect
    \/ nmsgs < MaxMsgs /\ \E success \in BOOLEAN : LegacyRecvAuthReply(success)
    \/ /\ nmsgs < MaxMsgs
       /\ \E deltas \in ReplyLists, latest \in LatestIds : RecvSubscribeReply(deltas, latest)
    \/ /\ nmsgs < MaxMsgs
       /\ nevents < MaxDeltaEvents
       /\ \E delta \in ChainDeltas : RecvNewDeltaEvent(delta)
    \/ ndisc < MaxDisconnects /\ Disconnect

SpecLegacy == InitLegacy /\ [][NextLegacy]_vars

(***************************************************************************)
(* Two deltas with the same parent: the queue of out of order deltas and   *)
(* its replay, with a reload of the document model                         *)
(***************************************************************************)
\* a delta of another participant that names the parent of ChainDelta(2)
ForkDelta ==
    Delta(6, 1, "nb_metadata", "update", NULL_RESOURCE_SENTINEL,
          [NoProps EXCEPT !.path = <<"f">>, !.value = Leaf("w")])

\* the new_delta_event broadcasts of the runs with a fork
TieDeltas == {ChainDelta(1), ChainDelta(2), ChainDelta(3), ForkDelta}

\* messages received in one run with a fork
MaxTieMsgs == 6

\* a session in which two deltas with the same parent arrive, in either
\* order, before or after their parent, and the server may ask for a reload
NextTie ==
    \/ Initialize(FileVersion, Seed(<<>>))
    \/ Connect
    \/ nmsgs < MaxTieMsgs /\ RecvAuthReply(TRUE)
    \/ ConnectRealtimeReturn
    \/ /\ nmsgs < MaxTieMsgs
       /\ \E deltas \in SubmitReplyLists, latest \in {NULL_PARENT_DELTA_SENTINEL, 1} :
            RecvSubscribeReply(deltas, latest)
    \/ /\ nmsgs < MaxTieMsgs
       /\ nevents < MaxDeltaEvents
       /\ \E delta \in TieDeltas : RecvNewDeltaEvent(delta)
    \/ /\ nmsgs < MaxTieMsgs
       /\ nreloads < MaxReloads
       /\ ~(initPc = "initialized" /\ deltas_to_apply_event)
       /\ RecvInconsistentState(NewFileVersion, Seed(<<>>))

SpecTie == Init /\ [][NextTie]_vars

(***************************************************************************)
(* NoteableClient (origami/client.py): callback trackers and the message   *)
(* processing loop, for one channel                                        *)
(***************************************************************************)
\* RTU_ERROR_HARD_MESSAGE_TYPES, as far as MessageTypes holds them
RTU_ERROR_HARD_MESSAGE_TYPES == {"invalid_data"}

\* what the callables registered in the model do with a message: return it,
\* raise, raise SkipCallback for every event but new_delta_reply (as
\* process_subscribe does for subscribe_reply), raise RTUError unless
\* data.success (check_success of add_cell)
Callables == {"return", "raise", "skip_events", "check_success"}

\* CallbackTracker(...) of register_message_callback; `future` numbers the
\* Future objects the tracker had in next_trigger, next_trigger is the state
\* of the current one: "pending", "result", "exception" or "cancelled"
CallbackTracker(callable, message_type, transaction_id, once, response_schema) ==
    [once |-> once, count |-> 0, callable |-> callable, message_type |-> message_type,
     transaction_id |-> transaction_id, response_schema |-> response_schema,
     next_trigger |-> "pending", future |-> 1]

\* the put_nowait of tracker t into the LifoQueue of its key
PutTracker(c, t) ==
    IF Truthy(c.trackers[t].transaction_id)
    THEN [c EXCEPT !.transaction_callbacks[c.trackers[t].transaction_id] = Append(@, t)]
    ELSE [c EXCEPT !.type_callbacks[c.trackers[t].message_type] = Append(@, t)]

\* NoteableClient.register_message_callback
register_message_callback(c, tracker) ==
    PutTracker([c EXCEPT !.trackers = Append(@, tracker)], Len(c.trackers) + 1)

\* the end of wrapped_callable: `if skipped or not tracker.once`
ResetTrigger(c, t, skipped) ==
    IF skipped THEN PutTracker(c, t)
    ELSE IF ~c.trackers[t].once
    THEN PutTracker([c EXCEPT !.trackers[t].next_trigger = "pending",
                              !.trackers[t].future = @ + 1], t)
    ELSE c

\* what wrapped_callable did with the message is noted for the step
Invoked(c, t, outcome) ==
    [c EXCEPT !.stepInvoked = Append(@, [tracker |-> t, outcome |-> outcome])]

\* an exception leaves wrapped_callable: _process_messages catches it at
\* `except Exception`, logs and breaks out of its loop
Escaped(c, t) == [Invoked(c, t, "escaped") EXCEPT !.process_task_loop = "done"]

\* tracker.next_trigger.set_exception(...): asyncio raises InvalidStateError
\* when the future is done or cancelled
SetException(c, t, outcome) ==
    IF c.trackers[t].next_trigger = "pending"
    THEN ResetTrigger(Invoked([c EXCEPT !.trackers[t].next_trigger = "exception"], t, outcome),
                      t, FALSE)
    ELSE Escaped(c, t)

\* the `except Exception` branch of wrapped_callable
CallableFailed(c, t) == SetException([c EXCEPT !.trackers[t].count = @ + 1], t, "raised")

\* the callable returned: the count goes up and set_result is called, whose
\* InvalidStateError lands in the `except Exception` branch
CallableReturned(c, t) ==
    IF c.trackers[t].next_trigger = "pending"
    THEN ResetTrigger(Invoked([c EXCEPT !.trackers[t].count = @ + 1,
                                        !.trackers[t].next_trigger = "result"], t, "returned"),
                      t, FALSE)
    ELSE CallableFailed([c EXCEPT !.trackers[t].count = @ + 1], t)

\* the callable raised SkipCallback
CallableSkipped(c, t) == ResetTrigger(Invoked(c, t, "skipped"), t, TRUE)

\* `await callable(resp)` inside the try of wrapped_callable
AwaitCallable(c, t, msg) ==
    CASE c.trackers[t].callable = "return" -> CallableReturned(c, t)
      [] c.trackers[t].callable = "raise" -> CallableFailed(c, t)
      [] c.trackers[t].callable = "skip_events" ->
            IF msg.event = "new_delta_reply" THEN CallableReturned(c, t)
            ELSE CallableSkipped(c, t)
      [] OTHER -> IF msg.success = "true" THEN CallableReturned(c, t) ELSE CallableFailed(c, t)

\* tracker.response_schema.parse_obj(resp) for the schema FileDeltaReply:
\* data.success is a required field
ParseFails(tracker, msg) == tracker.response_schema = "FileDeltaReply" /\ msg.success = None

\* faulty variant of wrapped_callable: a tracker that skipped is not put back
wrapped_callable_drops_skipped(c, t, msg) ==
    IF msg.event \in RTU_ERROR_HARD_MESSAGE_TYPES THEN SetException(c, t, "hard_error")
    ELSE IF ParseFails(c.trackers[t], msg) THEN Escaped(c, t)
    ELSE IF c.trackers[t].callable = "skip_events" /\ msg.event # "new_delta_reply"
    THEN Invoked(c, t, "skipped")
    ELSE AwaitCallable(c, t, msg)

\* wrapped_callable of tracker t, called by _process_messages
wrapped_callable(c, t, msg) ==
    IF msg.event \in RTU_ERROR_HARD_MESSAGE_TYPES THEN SetException(c, t, "hard_error")
    ELSE IF ParseFails(c.trackers[t], msg) THEN Escaped(c, t)
    ELSE AwaitCallable(c, t, msg)

\* `for tracker in trackers: processed = await tracker.callable(res)`, left
\* when an exception broke the loop of _process_messages
RECURSIVE RunTrackers(_, _, _)
RunTrackers(c, ts, msg) ==
    IF ts = <<>> \/ c.process_task_loop = "done" THEN c
    ELSE RunTrackers(wrapped_callable(c, Head(ts), msg), Tail(ts), msg)

\* the trackers pulled out of a LifoQueue: the last one put comes first
Reverse(q) == [i \in 1..Len(q) |-> q[Len(q) + 1 - i]]

\* the first half of the body of _process_messages: the transaction id callbacks
RunTransactionCallbacks(c, msg) ==
    RunTrackers([c EXCEPT !.transaction_callbacks[msg.transaction_id] = <<>>],
                Reverse(c.transaction_callbacks[msg.transaction_id]), msg)

\* the second half: the general event callbacks, not reached after a break
RunTypeCallbacks(c, msg) ==
    IF c.process_task_loop = "done" THEN c
    ELSE RunTrackers([c EXCEPT !.type_callbacks[msg.event] = <<>>],
                     Reverse(c.type_callbacks[msg.event]), msg)

\* one round of the loop of NoteableClient._process_messages for a message
process_message(c, msg) == RunTypeCallbacks(RunTransactionCallbacks(c, msg), msg)

\* NoteableClient.__aenter__ starts the processing task
NoteableEnter ==
    /\ process_task_loop = None
    /\ lastStep' = "NoteableEnter"
    /\ Commit([Client EXCEPT !.process_task_loop = "running"])
    /\ UNCHANGED <<file_version_id, deltas_to_apply_event, ws, pendingSubs, subscribed, initPc,
                   nmsgs, nevents, ndisc, nreloads, caughtUp, scenario, reply_ids, calls>>

\* the application (or a request method such as add_cell) registers a callback
RegisterMessageCallback(tracker) ==
    /\ lastStep' = "RegisterMessageCallback"
    /\ Commit(register_message_callback(Client, tracker))
    /\ UNCHANGED <<file_version_id, deltas_to_apply_event, ws, pendingSubs, subscribed, initPc,
                   nmsgs, nevents, ndisc, nreloads, caughtUp, scenario, reply_ids, calls>>

\* asyncio.wait_for(tracker.next_trigger, timeout) of a caller times out,
\* which cancels the future
CallerTimeout(t) ==
    /\ t \in 1..Len(trackers)
    /\ trackers[t].next_trigger = "pending"
    /\ lastStep' = "CallerTimeout"
    /\ Commit([Client EXCEPT !.trackers[t].next_trigger = "cancelled"])
    /\ UNCHANGED <<file_version_id, deltas_to_apply_event, ws, pendingSubs, subscribed, initPc,
                   nmsgs, nevents, ndisc, nreloads, caughtUp, scenario, reply_ids, calls>>

\* the processing task receives a message from the socket
RecvNoteableMessage(msg) ==
    /\ process_task_loop = "running"
    /\ nmsgs' = nmsgs + 1
    /\ lastStep' = "RecvNoteableMessage"
    /\ Commit([process_message(Client, msg) EXCEPT !.stepMsg = [NoMsg EXCEPT !.event = msg.event,
                                                                           !.cause = msg.transaction_id,
                                                                           !.result = msg.success]])
    /\ UNCHANGED <<file_version_id, deltas_to_apply_event, ws, pendingSubs, subscribed, initPc,
                   nevents, ndisc, nreloads, caughtUp, scenario, reply_ids, calls>>

\* trackers registered in one run of the NoteableClient
MaxTrackers == 2

\* messages received in one run of the NoteableClient
MaxNoteableMsgs == 2

\* the trackers registered in the model: the one of add_cell for its
\* transaction, and trackers of the application by transaction or by event
Trackers ==
    {CallbackTracker("check_success", None, "t1", TRUE, "FileDeltaReply")}
    \cup {CallbackTracker("return", None, "t1", once, None) : once \in BOOLEAN}
    \cup {CallbackTracker("skip_events", None, "t1", TRUE, None)}
    \cup {CallbackTracker(callable, "new_delta_reply", None, FALSE, None) :
            callable \in {"return", "raise"}}

\* the messages the server sends: event, transaction id and data.success
\* ("true", "false", or None when data has no such field)
NoteableMessages ==
    {[event |-> "new_delta_event", transaction_id |-> "t1", success |-> None],
     [event |-> "new_delta_reply", transaction_id |-> "t1", success |-> "true"],
     [event |-> "new_delta_reply", transaction_id |-> "t2", success |-> "true"],
     [event |-> "new_delta_reply", transaction_id |-> "t1", success |-> "false"],
     [event |-> "invalid_data", transaction_id |-> "t1", success |-> None]}

\* a NoteableClient whose callers register callbacks and time out while the
\* server sends replies, events and errors
NextNoteable ==
    \/ NoteableEnter
    \/ Len(trackers) < MaxTrackers /\ \E tracker \in Trackers : RegisterMessageCallback(tracker)
    \/ \E t \in 1..MaxTrackers : CallerTimeout(t)
    \/ nmsgs < MaxNoteableMsgs /\ \E msg \in NoteableMessages : RecvNoteableMessage(msg)

SpecNoteable == Init /\ [][NextNoteable]_vars

(***************************************************************************)
(* The NotebookBuilder on its own: deltas of every variant applied to      *)
(* seed notebooks                                                          *)
(***************************************************************************)
\* seed notebooks for the builder, one of them with a duplicated cell id
BuilderSeeds ==
    { Seed(<<>>),
      Seed(<<Cell("c1", "code", "x")>>),
      Seed(<<Cell("c1", "code", "x"), Cell("c2", "markdown", "y")>>),
      Seed(<<Cell("c1", "code", "x"), Cell("c1", "raw", "w")>>) }

\* ids of the deltas applied to the builder on its own
ApplyId(n) == 20 + n

Content(dtype, action, resource, props) ==
    [delta_type |-> dtype, delta_action |-> action, resource_id |-> resource,
     properties |-> props]

\* delta contents of every (delta_type, delta_action) the builder handles,
\* with present, missing and empty arguments, and of pairs it does not handle
BuilderContents ==
    { Content("nb_cells", "add", NULL_RESOURCE_SENTINEL,
              [NoProps EXCEPT !.id = "c3", !.cell = Cell("", "code", "n")]),
      Content("nb_cells", "add", NULL_RESOURCE_SENTINEL,
              [NoProps EXCEPT !.id = "c3", !.after_id = "c1", !.cell = Cell("", "code", "n")]),
      Content("nb_cells", "add", NULL_RESOURCE_SENTINEL,
              [NoProps EXCEPT !.id = "c1", !.after_id = "zz", !.cell = Cell("", "code", "n")]),
      Content("nb_cells", "add", NULL_RESOURCE_SENTINEL, [NoProps EXCEPT !.id = "c3"]),
      Content("nb_cells", "add", NULL_RESOURCE_SENTINEL,
              [NoProps EXCEPT !.id = "c1", !.cell = Cell("c9", "code", "n")]),
      Content("nb_cells", "delete", NULL_RESOURCE_SENTINEL, [NoProps EXCEPT !.id = "c1"]),
      Content("nb_cells", "delete", NULL_RESOURCE_SENTINEL, NoProps),
      Content("nb_cells", "move", NULL_RESOURCE_SENTINEL,
              [NoProps EXCEPT !.id = "c1", !.after_id = "c2"]),
      Content("nb_cells", "move", NULL_RESOURCE_SENTINEL,
              [NoProps EXCEPT !.id = "c2"]),
      Content("nb_cells", "move", NULL_RESOURCE_SENTINEL,
              [NoProps EXCEPT !.id = "c1", !.after_id = "c1"]),
      Content("nb_cells", "move", NULL_RESOURCE_SENTINEL,
              [NoProps EXCEPT !.id = "c1", !.after_id = "zz"]),
      Content("nb_cells", "move", NULL_RESOURCE_SENTINEL,
              [NoProps EXCEPT !.id = "zz", !.after_id = "c1"]),
      Content("cell_contents", "update", "c1",
              [NoProps EXCEPT !.patch = [from |-> "x", to |-> "xx"]]),
      Content("cell_contents", "replace", "c1", [NoProps EXCEPT !.source = "Z"]),
      Content("cell_contents", "replace", "c2", [NoProps EXCEPT !.source = "Z"]),
      Content("cell_metadata", "update", "c1",
              [NoProps EXCEPT !.path = <<"a", "b">>, !.value = Leaf("v")]),
      Content("cell_metadata", "update", "c1",
              [NoProps EXCEPT !.path = <<"a">>, !.value = Leaf("v")]),
      Content("cell_metadata", "update", "c1",
              [NoProps EXCEPT !.path = <<"a", "b">>, !.value = Leaf("w"), !.prior_value = "p"]),
      Content("cell_metadata", "replace", "c1", [NoProps EXCEPT !.type = "markdown"]),
      Content("cell_metadata", "replace", "c1",
              [NoProps EXCEPT !.type = "markdown", !.language = "sql"]),
      Content("cell_metadata", "replace", "c1", [NoProps EXCEPT !.language = "sql"]),
      Content("cell_metadata", "replace", "c1", [NoProps EXCEPT !.type = "bogus"]),
      Content("nb_metadata", "update", NULL_RESOURCE_SENTINEL,
              [NoProps EXCEPT !.path = <<"a", "b">>, !.value = Leaf("v")]),
      Content("nb_metadata", "update", NULL_RESOURCE_SENTINEL,
              [NoProps EXCEPT !.path = <<"a">>, !.value = Leaf("v")]),
      Content("nb_metadata", "update", NULL_RESOURCE_SENTINEL,
              [NoProps EXCEPT !.path = <<"a", "b">>, !.value = Leaf("w"), !.prior_value = "p"]),
      Content("nb_metadata", "update", NULL_RESOURCE_SENTINEL,
              [NoProps EXCEPT !.path = <<"a", "b", "c">>, !.value = Leaf("7")]),
      Content("cell_output_collection", "replace", "c1",
              [NoProps EXCEPT !.output_collection_id = "o1"]),
      Content("cell_execute", "execute", "c1", NoProps),
      Content("cell_execute", "execute_all", NULL_RESOURCE_SENTINEL, NoProps),
      Content("cell_execute", "frobnicate", "c1", NoProps),
      Content("nb_cells", "replace", "c1", [NoProps EXCEPT !.id = "c1"]),
      Content("nb_outputs", "update", "c1", [NoProps EXCEPT !.source = "Z"]) }

\* NotebookBuilder.apply_delta is called on the builder
BuilderApply(content) ==
    /\ LET delta == Delta(ApplyId(Len(calls) + 1), NoDelta, content.delta_type,
                          content.delta_action, content.resource_id, content.properties)
           r     == BuilderApplyDelta(builder, delta)
       IN  /\ builder' = r.b
           /\ calls' = Append(calls, [delta |-> delta, before |-> builder, raised |-> r.raised])
    /\ lastStep' = "BuilderApply"
    /\ UNCHANGED <<file_version_id, unapplied_deltas, deltas_to_apply_event, delta_callbacks,
                   registry, submissions, ws, pendingSubs, subscribed, initPc, nmsgs, nevents,
                   ndisc, nreloads, caughtUp, applied, seeded, scenario, reply_ids,
                   stepApplies, stepSent, stepErrors,
                   stepMsg,
                   file_subscribe_timeout_task,
                   orphan_timeout_tasks,
                   execute_cell_events,
                   cell_states,
                   kernel_state,
                   stepFutures,
                   stepCallbacks,
                   trackers,
                   transaction_callbacks,
                   type_callbacks,
                   process_task_loop,
                   stepInvoked,
                   passed_over,
                   squash_calls>>

InitBuilder ==
    /\ builder \in {NewBuilder(seed) : seed \in BuilderSeeds}
    /\ file_version_id = NoVersion
    /\ unapplied_deltas = <<>>
    /\ deltas_to_apply_event = FALSE
    /\ delta_callbacks = <<>>
    /\ registry = {}
    /\ submissions = <<>>
    /\ ws = "down"
    /\ pendingSubs = 0
    /\ subscribed = FALSE
    /\ initPc = "new"
    /\ nmsgs = 0
    /\ nevents = 0
    /\ ndisc = 0
    /\ nreloads = 0
    /\ caughtUp = FALSE
    /\ applied = {}
    /\ seeded = NoDelta
    /\ scenario = 0
    /\ reply_ids = {}
    /\ stepApplies = <<>>
    /\ stepSent = <<>>
    /\ stepErrors = <<>>
    /\ lastStep = "Init"
    /\ calls = <<>>
    /\ stepMsg = NoMsg
    /\ file_subscribe_timeout_task = None
    /\ orphan_timeout_tasks = 0
    /\ execute_cell_events = NoExecutions
    /\ cell_states = NoCellStates
    /\ kernel_state = "not_started"
    /\ stepFutures = <<>>
    /\ stepCallbacks = <<>>
    /\ trackers = <<>>
    /\ transaction_callbacks = NoTransactionCallbacks
    /\ type_callbacks = NoTypeCallbacks
    /\ process_task_loop = None
    /\ stepInvoked = <<>>
    /\ passed_over = {}
    /\ squash_calls = {}

NextBuilder == Len(calls) < MaxApplies /\ \E content \in BuilderContents : BuilderApply(content)

SpecBuilder == InitBuilder /\ [][NextBuilder]_vars

(***************************************************************************)
(* Properties                                                              *)
(***************************************************************************)
\* ids of the deltas waiting in unapplied_deltas
QueuedIds == {unapplied_deltas[i].id : i \in 1..Len(unapplied_deltas)}

\* ids of the five deltas of Scenario A
ScenarioIds == {ScenarioA[i].id : i \in 1..Len(ScenarioA)}

\* C1 (linearization): every delta squashed while last_applied_delta_id is
\* non-null has that id as its parent_delta_id at the moment it is applied;
\* only a delta handed to queue_or_apply_delta while last_applied_delta_id is
\* null is applied unchecked (never a replayed one); and a delta applied right
\* after a successful apply has the delta applied before it as its parent.
C1_Linearization ==
    \A i \in 1..Len(stepApplies) :
        LET a == stepApplies[i] IN
        /\ a.last_before # NoDelta => a.delta.parent_delta_id = a.last_before
        /\ a.last_before = NoDelta => a.via # "replay"
        /\ (i > 1 /\ ~stepApplies[i - 1].raised) =>
                a.delta.parent_delta_id = stepApplies[i - 1].delta.id

\* a step that applied a delta and then replayed a queued one on top of it
C1_Witness ==
    /\ Len(stepApplies) >= 2
    /\ stepApplies[2].via = "replay"
    /\ stepApplies[2].last_before = stepApplies[1].delta.id

\* C2 (Scenario A as the code behaves): after D2, D5, D4, D3, D1 arrived in
\* that order on a fresh builder and catch-up completed, all five are applied,
\* last_applied_delta_id is D5 and unapplied_deltas is empty when
\* last_applied_delta_id was seeded with D1's parent, the all-zero id; when
\* the five were handed to queue_or_apply_delta while last_applied_delta_id was
\* null (as deltas_to_apply), D2 is applied unchecked, D3, D4, D5 follow and D1
\* stays in unapplied_deltas.
C2_ScenarioA ==
    (caughtUp /\ scenario = Len(ScenarioA)) =>
        /\ seeded = NULL_PARENT_DELTA_SENTINEL =>
              /\ applied = ScenarioIds
              /\ builder.last_applied_delta_id = ChainDelta(5).id
              /\ unapplied_deltas = <<>>
        /\ reply_ids = ScenarioIds =>
              /\ applied = ScenarioIds \ {ChainDelta(1).id}
              /\ builder.last_applied_delta_id = ChainDelta(5).id
              /\ unapplied_deltas = <<ChainDelta(1)>>

\* the five deltas arrived in the order of Scenario A and all are applied
C2_Witness ==
    /\ caughtUp
    /\ scenario = Len(ScenarioA)
    /\ seeded = NULL_PARENT_DELTA_SENTINEL
    /\ applied = ScenarioIds
    /\ lastStep = "RecvNewDeltaEvent"

\* C2 as stated: whenever the five deltas were handed to the sequencer in the
\* order of Scenario A on a fresh builder that had applied no delta (its
\* last_applied_delta_id null or seeded with the all-zero id), all five are
\* applied, last_applied_delta_id is D5 and unapplied_deltas is empty.
C2_Original ==
    (caughtUp /\ scenario = Len(ScenarioA) /\ seeded \in {NoDelta, NULL_PARENT_DELTA_SENTINEL}) =>
        /\ applied = ScenarioIds
        /\ builder.last_applied_delta_id = ChainDelta(5).id
        /\ unapplied_deltas = <<>>

\* the last NotebookBuilder.apply_delta call leaves cells and metadata alone
Untouched(k) ==
    /\ builder.cells = k.before.cells
    /\ builder.metadata = k.before.metadata

\* the delta of call k is a metadata/output delta for a deleted or missing cell
Dropped(k) ==
    /\ \/ k.delta.delta_type = "cell_metadata" /\ k.delta.delta_action = "update"
       \/ k.delta.delta_type = "cell_output_collection" /\ k.delta.delta_action = "replace"
    /\ \/ k.delta.resource_id \in k.before.deleted_cell_ids
       \/ get_cell(k.before.cells, k.delta.resource_id) = 0

\* C3: after a NotebookBuilder.apply_delta(D) call that did not raise,
\* last_applied_delta_id = D.id, whatever the variant of D; for cell_execute
\* deltas, unknown (delta_type, delta_action) pairs and dropped metadata/output
\* deltas the cells and the metadata are what they were before the call.
C3_LastApplied ==
    calls # <<>> =>
        LET k == calls[Len(calls)] IN
        ~k.raised =>
            /\ builder.last_applied_delta_id = k.delta.id
            /\ k.delta.delta_type = "cell_execute" => Untouched(k)
            /\ ~HasHandler(k.delta) => Untouched(k)
            /\ Dropped(k) => Untouched(k)

\* a cell_metadata/update for a cell deleted by the call before it returned
\* without raising and moved last_applied_delta_id
C3_Witness ==
    /\ Len(calls) = 2
    /\ Dropped(calls[2])
    /\ calls[2].delta.resource_id \in calls[2].before.deleted_cell_ids
    /\ ~calls[2].raised
    /\ calls[2].before.last_applied_delta_id = calls[1].delta.id
    /\ builder.last_applied_delta_id = calls[2].delta.id

\* C4 as stated: a delta arriving as a new_delta_event is squashed (by the
\* handler or by the replay it starts) only when a subscribe_reply has been
\* processed for the current builder.
C4_Original ==
    lastStep = "RecvNewDeltaEvent" =>
        \A i \in 1..Len(stepApplies) : stepApplies[i].caught_up

\* C5: when _on_file_subscribe_reply finishes, deltas_to_apply_event is set,
\* last_applied_delta_id is non-null (it is latest_delta_id when the loop over
\* deltas_to_apply applied nothing) and no delta left in unapplied_deltas has
\* last_applied_delta_id as its parent; the replay it ran ended.
C5_CatchUp ==
    lastStep = "RecvSubscribeReply" =>
        /\ deltas_to_apply_event
        /\ builder.last_applied_delta_id # NoDelta
        /\ (applied = {} => builder.last_applied_delta_id = seeded)
        /\ FirstReplayable(Client) = 0

\* a subscribe_reply that seeded last_applied_delta_id and replayed queued deltas
C5_Witness ==
    /\ lastStep = "RecvSubscribeReply"
    /\ seeded # NoDelta
    /\ Len(stepApplies) >= 2
    /\ unapplied_deltas # <<>>

C7_Original ==
    \A i \in 1..Len(stepSent) :
        stepSent[i].event = "subscribe_request" =>
            /\ stepSent[i].valid
            /\ stepSent[i].from_delta_id # NULL_PARENT_DELTA_SENTINEL

\* C8 as stated: no handler sets a result future that is already resolved.
C8_Original ==
    \A i \in 1..Len(stepErrors) : stepErrors[i] # "InvalidStateError"

\* C9 as stated: once a submission's future is resolved (success, rejection
\* or cancellation) neither of its two handlers is registered.
C9_Original ==
    \A n \in 1..Len(submissions) :
        submissions[n].result # "pending" =>
            /\ n \notin registry
            /\ \A i \in 1..Len(delta_callbacks) :
                    delta_callbacks[i] # DeltaCb(n, submissions[n].delta)

\* C10 as stated: a submission that resolved with success had its delta
\* squashed: NotebookBuilder.apply_delta returned for it and
\* last_applied_delta_id was its id when the future was resolved.
C10_Original ==
    \A n \in 1..Len(submissions) :
        submissions[n].result = "success" =>
            /\ submissions[n].squashed_at_success
            /\ submissions[n].last_at_success = submissions[n].delta.id

\* the argument of the DeltaRejected that rtu_cb raises for a message
RejectionArg(event, cause) ==
    IF event = "delta_rejected" THEN cause
    ELSE IF event = "invalid_data" THEN "Invalid Delta scheme"
    ELSE "Permission denied"

C12_Original ==
    (/\ lastStep = "RecvTransactionEvent"
     /\ stepMsg.event \in {"invalid_event", "invalid_data", "permission_denied"}
     /\ stepMsg.result = "pending") =>
        submissions[stepMsg.sub].result = "rejected"

\* C13 as stated: when NotebookBuilder.apply_delta raises while the client
\* squashes a delta, the client shuts down and squashes no further delta: the
\* raising call is the last one of its step and the websocket is shut down.
C13_Original ==
    \A i \in 1..Len(stepApplies) :
        stepApplies[i].raised =>
            /\ ws = "shutdown"
            /\ i = Len(stepApplies)

\* C14 (resync): the handler of an inconsistent_state_event sends an
\* unsubscribe_request and then a subscribe_request by the refetched version
\* id, and leaves a builder made from the new seed that has applied no delta;
\* when the following subscribe_reply is processed deltas_to_apply_event is
\* set, last_applied_delta_id is non-null and no queued delta is replayable;
\* and when the broadcast of a delta submitted after that reply arrives in
\* order, it is squashed by the handler and the submission resolves with
\* success (with last_applied_delta_id its id when the builder took it).
C14_Resync ==
    /\ lastStep = "RecvInconsistentState" =>
          /\ stepSent = <<[event |-> "unsubscribe_request"],
                          FileSubscribeRequestData(NewFileVersion, NoDelta)>>
          /\ file_version_id = NewFileVersion
          /\ builder.last_applied_delta_id = NoDelta
          /\ builder.deleted_cell_ids = {}
          /\ applied = {}
          /\ stepApplies = <<>>
    /\ (lastStep = "RecvSubscribeReply" /\ nreloads > 0) =>
          /\ caughtUp
          /\ deltas_to_apply_event
          /\ builder.last_applied_delta_id # NoDelta
          /\ FirstReplayable(Client) = 0
    /\ \A n \in 1..Len(submissions) :
          (/\ lastStep = "RecvNewDeltaEvent"
           /\ submissions[n].nreloads > 0
           /\ submissions[n].caught_up
           /\ stepApplies # <<>>
           /\ stepApplies[1].delta.id = submissions[n].delta.id
           /\ stepApplies[1].delta.parent_delta_id = stepApplies[1].last_before) =>
              /\ submissions[n].result = "success"
              /\ n \notin registry
              /\ ~stepApplies[1].raised =>
                    /\ submissions[n].squashed_at_success
                    /\ submissions[n].last_at_success = submissions[n].delta.id

\* after a reload and the subscribe_reply that followed it, a delta was
\* submitted, its broadcast arrived in order and the builder took it
C14_Witness ==
    /\ lastStep = "RecvNewDeltaEvent"
    /\ nreloads = 1
    /\ caughtUp
    /\ Len(submissions) = 1
    /\ submissions[1].nreloads = 1
    /\ submissions[1].caught_up
    /\ Len(stepApplies) = 1
    /\ stepApplies[1].delta.id = submissions[1].delta.id
    /\ stepApplies[1].delta.parent_delta_id = stepApplies[1].last_before
    /\ ~stepApplies[1].raised
    /\ submissions[1].result = "success"
    /\ builder.last_applied_delta_id = submissions[1].delta.id

\* C16 as stated: an authenticate_reply with success=false is fatal: the
\* caller of initialize() gets an error, and no subscribe_request is sent.
\* (_on_auth leaves the websocket unauthenticated exactly when success=false.)
C16_Original ==
    (lastStep = "RecvAuthReply" /\ ws # "authed") =>
        /\ initPc = "failed"
        /\ stepErrors # <<>>
        /\ stepSent = <<>>

\* C17 as stated: when the subscribe timeout expires without a
\* subscribe_reply the client fails hard: it is shut down, and a caller still
\* waiting for catch-up gets an error instead of waiting on.
C17_Original ==
    lastStep = "SubscribeTimeout" =>
        /\ ws = "shutdown"
        /\ ~deltas_to_apply_event => initPc = "failed"

\* C18 as stated: once RTUClient.shutdown() has completed, no task the client
\* started can still run: no on_file_subscribe_timeout task is sleeping.
C18_Original ==
    lastStep = "Shutdown" =>
        /\ file_subscribe_timeout_task # "pending"
        /\ orphan_timeout_tasks = 0

\* C20 as stated: after a bulk_cell_state_update that reports a cell in a
\* terminal execution state, the execution future of that cell is not pending;
\* and a resolved execution future was resolved by a terminal state.
C20_Original ==
    \A cell_id \in ExecCells :
        /\ (/\ lastStep = "RecvBulkCellStateUpdate"
            /\ cell_states[cell_id] # None
            /\ is_terminal_state(cell_states[cell_id])) =>
                execute_cell_events[cell_id].state # "pending"
        /\ execute_cell_events[cell_id].state \in {"result", "exception"} =>
                is_terminal_state(execute_cell_events[cell_id].by)

\* what C21 expects of one bulk_cell_state_update_event: the handler does
\* not raise, cell_states holds the state of every cell of the update, and a
\* future that was pending for a cell reported in a terminal state is
\* resolved, with CellNotFound when the cell is gone from the builder and
\* with the builder's cell otherwise
ExecutionResolved(items) ==
    /\ stepErrors' = <<>>
    /\ \A i \in 1..Len(items) : cell_states'[items[i].cell_id] # None
    /\ \A i \in 1..Len(items) :
          (/\ execute_cell_events[items[i].cell_id].state = "pending"
           /\ is_terminal_state(items[i].state)) =>
              IF get_cell(builder.cells, items[i].cell_id) = 0
              THEN execute_cell_events'[items[i].cell_id].state = "exception"
              ELSE /\ execute_cell_events'[items[i].cell_id].state = "result"
                   /\ execute_cell_events'[items[i].cell_id].cell =
                          builder.cells[get_cell(builder.cells, items[i].cell_id)]

\* C21 as stated: when a cell with a pending execution future is reported in
\* a terminal state, the future is resolved with CellNotFound if the cell was
\* deleted from the builder and with the builder's current cell otherwise;
\* the handler does not raise and cell_states is updated for every cell.
C21_Original ==
    [][\A items \in BulkUpdates : RecvBulkCellStateUpdate(items) => ExecutionResolved(items)]_vars

\* queue_execution was called with exactly one of its selectors
OneSelector(args) ==
    \/ Truthy(args.cell_id) /\ args.before_id = None /\ args.after_id = None /\ ~args.run_all
    \/ args.cell_id = None /\ Truthy(args.before_id) /\ args.after_id = None /\ ~args.run_all
    \/ args.cell_id = None /\ args.before_id = None /\ Truthy(args.after_id) /\ ~args.run_all
    \/ args.cell_id = None /\ args.before_id = None /\ args.after_id = None /\ args.run_all

\* the cells of the range C22 names for each selector: all cells, the cells up
\* to and including before_id, the cell after_id and all after it, the cell
\* cell_id
SelectedRange(cells, args) ==
    IF args.run_all THEN cells
    ELSE IF Truthy(args.before_id) THEN SubSeq(cells, 1, get_cell(cells, args.before_id))
    ELSE IF Truthy(args.after_id) THEN SubSeq(cells, get_cell(cells, args.after_id), Len(cells))
    ELSE SubSeq(cells, get_cell(cells, args.cell_id), get_cell(cells, args.cell_id))

\* a code cell whose source is not blank
Eligible(cell) == cell.cell_type = "code" /\ Strip(cell.source) # ""

\* the ids of the eligible cells of a range, in notebook order
EligibleIds(range) ==
    [i \in 1..Len(SelectSeq(range, Eligible)) |-> SelectSeq(range, Eligible)[i].id]

\* C22 as stated: queue_execution returns exactly one future per eligible cell
\* (a code cell with non-blank source) of the selected range, and none for
\* markdown, raw or blank cells.
C22_Original ==
    [][\A args \in QueueArgs :
          (OneSelector(args) /\ QueueExecution(args) /\ stepErrors' = <<>>) =>
              stepFutures' = EligibleIds(SelectedRange(builder.cells, args))]_vars

\* queue_execution was called without a selector
NoSelector(args) ==
    ~Truthy(args.cell_id) /\ ~Truthy(args.before_id) /\ ~Truthy(args.after_id) /\ ~args.run_all

\* the step sent nothing, created no delta request and registered no future
NothingQueued ==
    /\ stepSent' = <<>>
    /\ stepFutures' = <<>>
    /\ submissions' = submissions
    /\ registry' = registry
    /\ delta_callbacks' = delta_callbacks
    /\ execute_cell_events' = execute_cell_events

\* C23: queue_execution without a selector raises ValueError, and with a
\* selector while kernel_state is not_started raises RuntimeError; in both
\* cases no delta request is sent and no future is registered.
C23_Refused ==
    [][\A args \in QueueArgs :
          QueueExecution(args) =>
              /\ NoSelector(args) => (stepErrors' = <<"ValueError">> /\ NothingQueued)
              /\ (~NoSelector(args) /\ kernel_state = "not_started") =>
                    (stepErrors' = <<"RuntimeError">> /\ NothingQueued)]_vars

\* an execution was refused in a subscribed session whose kernel has not started
C23_Witness ==
    /\ lastStep = "QueueExecution"
    /\ stepErrors = <<"RuntimeError">>
    /\ kernel_state = "not_started"
    /\ initPc = "realtime"
    /\ submissions = <<>>

\* C24 as stated: in every reachable builder state the set of cell ids
\* present in the notebook is disjoint from deleted_cell_ids.
C24_Original == CellIds(builder.cells) \cap builder.deleted_cell_ids = {}

\* the call applied a metadata or output delta: cell_metadata/update,
\* cell_metadata/replace or cell_output_collection/replace
MetadataOrOutput(k) ==
    \/ k.delta.delta_type = "cell_metadata" /\ k.delta.delta_action \in {"update", "replace"}
    \/ k.delta.delta_type = "cell_output_collection" /\ k.delta.delta_action = "replace"

\* the call returned, left cells and metadata alone and moved last_applied_delta_id
SilentlyDropped(k) ==
    /\ ~k.raised
    /\ Untouched(k)
    /\ builder.deleted_cell_ids = k.before.deleted_cell_ids
    /\ builder.last_applied_delta_id = k.delta.id

\* C25 as stated: a cell_metadata/update, cell_metadata/replace or
\* cell_output_collection/replace whose resource_id is in deleted_cell_ids is
\* silently dropped (no raise, cells and metadata unchanged, only
\* last_applied_delta_id advances), and so is a cell_metadata/update or
\* cell_output_collection/replace for a cell neither present nor deleted.
C25_Original ==
    calls # <<>> =>
        /\ (/\ MetadataOrOutput(calls[Len(calls)])
            /\ calls[Len(calls)].delta.resource_id \in calls[Len(calls)].before.deleted_cell_ids)
                => SilentlyDropped(calls[Len(calls)])
        /\ Dropped(calls[Len(calls)]) => SilentlyDropped(calls[Len(calls)])

\* the call applied an nb_cells/add that carries a cell and returned
Added(k) ==
    /\ k.delta.delta_type = "nb_cells"
    /\ k.delta.delta_action = "add"
    /\ k.delta.properties.cell # NoCell
    /\ ~k.raised

\* where C26 expects the new cell (1-based): right after the first cell with
\* id after_id, or first in the notebook
AddedAt(k) ==
    IF Truthy(k.delta.properties.after_id)
    THEN get_cell(k.before.cells, k.delta.properties.after_id) + 1
    ELSE 1

Moved(k) == k.delta.delta_type = "nb_cells" /\ k.delta.delta_action = "move"

\* how many cells carry the id
IdCount(cells, id) == Cardinality({i \in 1..Len(cells) : cells[i].id = id})

\* the two lists of cells hold the same multiset of cell ids
SameIds(cells, other) ==
    \A id \in CellIds(cells) \cup CellIds(other) : IdCount(cells, id) = IdCount(other, id)

\* where C27 expects the moved cell (1-based) among the other cells: right
\* after the first of them with id after_id, or first in the notebook
MovedTo(k, others) ==
    IF Truthy(k.delta.properties.after_id)
    THEN get_cell(others, k.delta.properties.after_id) + 1
    ELSE 1

\* the cells of the notebook before the call without the cell that moves
OtherCells(k) == PopAt(k.before.cells, get_cell(k.before.cells, k.delta.properties.id))

\* C27 as stated: nb_cells/move with id == after_id leaves the order
\* unchanged; with id != after_id the cell ends right after the after_id cell
\* (at index 0 when after_id is absent) and the other cells keep their
\* relative order; in every case the multiset of cell ids in the notebook is
\* the same before and after the move.
C27_Original ==
    (calls # <<>> /\ Moved(calls[Len(calls)])) =>
        /\ calls[Len(calls)].delta.properties.id = calls[Len(calls)].delta.properties.after_id
                => builder.cells = calls[Len(calls)].before.cells
        /\ (/\ calls[Len(calls)].delta.properties.id # calls[Len(calls)].delta.properties.after_id
            /\ ~calls[Len(calls)].raised) =>
                /\ Len(builder.cells) = Len(calls[Len(calls)].before.cells)
                /\ builder.cells[MovedTo(calls[Len(calls)], OtherCells(calls[Len(calls)]))].id =
                        calls[Len(calls)].delta.properties.id
                /\ PopAt(builder.cells, MovedTo(calls[Len(calls)], OtherCells(calls[Len(calls)]))) =
                        OtherCells(calls[Len(calls)])
        /\ SameIds(builder.cells, calls[Len(calls)].before.cells)

\* C28 as stated: whenever NotebookBuilder.apply_delta raises, the builder is
\* exactly as before the call: same cells in the same order with the same
\* content, same notebook metadata, same deleted_cell_ids and same
\* last_applied_delta_id.
C28_Original ==
    (calls # <<>> /\ calls[Len(calls)].raised) => builder = calls[Len(calls)].before

\* the call applied a nested-path update that reached the traversal and
\* returned: an nb_metadata/update, or a cell_metadata/update for a cell that
\* is in the notebook and not in deleted_cell_ids, with a non-empty path
PathUpdated(k) ==
    /\ k.delta.delta_action = "update"
    /\ \/ k.delta.delta_type = "nb_metadata"
       \/ /\ k.delta.delta_type = "cell_metadata"
          /\ k.delta.resource_id \notin k.before.deleted_cell_ids
          /\ get_cell(k.before.cells, k.delta.resource_id) # 0
    /\ k.delta.properties.path # <<>>
    /\ ~k.raised

\* the metadata root the update of call k works on, in builder b
MetadataRoot(k, b) ==
    IF k.delta.delta_type = "nb_metadata" THEN b.metadata
    ELSE b.cells[get_cell(k.before.cells, k.delta.resource_id)].metadata

\* what following a path that leaves the mappings yields
NoNode == [leaf |-> TRUE, v |-> "__no_node__", d |-> <<>>]

\* following a path of keys from a node
RECURSIVE Follow(_, _)
Follow(node, path) ==
    IF path = <<>> THEN node
    ELSE IF node.leaf \/ ~HasKey(node, path[1]) THEN NoNode
    ELSE Follow(node.d[path[1]], Tail(path))

\* the mapping under key k of a node, an empty one where the key is missing
ChildOrEmpty(node, k) == IF HasKey(node, k) THEN node.d[k] ELSE EmptyDict

\* along the path every node is a mapping that has the keys it had before
\* plus the key of the path, and the keys off the path hold what they held
RECURSIVE OffPathKept(_, _, _)
OffPathKept(old, new, path) ==
    IF path = <<>> THEN TRUE
    ELSE /\ ~new.leaf
         /\ DOMAIN new.d = (DOMAIN old.d) \cup {path[1]}
         /\ \A x \in (DOMAIN old.d) \ {path[1]} : new.d[x] = old.d[x]
         /\ Len(path) > 1 =>
                OffPathKept(ChildOrEmpty(old, path[1]), new.d[path[1]], Tail(path))

\* C29: after a nested-path update with a non-empty path p and value v that
\* returns (nb_metadata/update, or cell_metadata/update on a cell that is
\* present and not deleted), following p from the metadata root yields v,
\* every node along p is a mapping, and the keys not on p hold what they held
\* before; v is written whatever prior_value says, so the last of two updates
\* at one path wins.
C29_NestedPath ==
    (calls # <<>> /\ PathUpdated(calls[Len(calls)])) =>
        /\ Follow(MetadataRoot(calls[Len(calls)], builder),
                  calls[Len(calls)].delta.properties.path) =
                calls[Len(calls)].delta.properties.value
        /\ OffPathKept(MetadataRoot(calls[Len(calls)], calls[Len(calls)].before),
                       MetadataRoot(calls[Len(calls)], builder),
                       calls[Len(calls)].delta.properties.path)

\* two updates of one path in the notebook metadata, the second with another
\* value and with a prior_value that is not the value the first one wrote
C29_Witness ==
    /\ Len(calls) = 2
    /\ PathUpdated(calls[1])
    /\ PathUpdated(calls[2])
    /\ calls[1].delta.delta_type = "nb_metadata"
    /\ calls[2].delta.delta_type = "nb_metadata"
    /\ Len(calls[2].delta.properties.path) = 2
    /\ calls[1].delta.properties.path = calls[2].delta.properties.path
    /\ calls[1].delta.properties.value # calls[2].delta.properties.value
    /\ calls[2].delta.properties.prior_value # NULL_PRIOR_VALUE_SENTINEL
    /\ calls[2].delta.properties.prior_value # calls[1].delta.properties.value.v
    /\ Follow(builder.metadata, calls[2].delta.properties.path) =
            calls[2].delta.properties.value

\* the call applied a cell_metadata/replace to a cell of the notebook and returned
Replaced(k) ==
    /\ k.delta.delta_type = "cell_metadata"
    /\ k.delta.delta_action = "replace"
    /\ get_cell(k.before.cells, k.delta.resource_id) # 0
    /\ ~k.raised

\* the cells other than the one at the index are what they were
OthersKept(cells, before, index) ==
    /\ Len(cells) = Len(before)
    /\ \A i \in 1..Len(before) : i # index => cells[i] = before[i]

\* the cell has the id and source it had and the cell type of the delta
Retyped(cell, before, type) ==
    /\ cell.id = before.id
    /\ cell.source = before.source
    /\ cell.cell_type = type

\* C30 as stated: after a cell_metadata/replace on an existing cell, when
\* properties.type is set the cell at the same index has the same id and
\* source and the new cell_type and no other cell changed; when
\* properties.language is set, whether or not type is set,
\* metadata.noteable.cell_type of the cell equals that language.
C30_Original ==
    (calls # <<>> /\ Replaced(calls[Len(calls)])) =>
        /\ Truthy(calls[Len(calls)].delta.properties.type) =>
              /\ OthersKept(builder.cells, calls[Len(calls)].before.cells,
                            get_cell(calls[Len(calls)].before.cells,
                                     calls[Len(calls)].delta.resource_id))
              /\ Retyped(builder.cells[get_cell(calls[Len(calls)].before.cells,
                                                calls[Len(calls)].delta.resource_id)],
                         calls[Len(calls)].before.cells[
                            get_cell(calls[Len(calls)].before.cells,
                                     calls[Len(calls)].delta.resource_id)],
                         calls[Len(calls)].delta.properties.type)
        /\ Truthy(calls[Len(calls)].delta.properties.language) =>
              Follow(builder.cells[get_cell(calls[Len(calls)].before.cells,
                                            calls[Len(calls)].delta.resource_id)].metadata,
                     <<"noteable", "cell_type">>) =
                  Leaf(calls[Len(calls)].delta.properties.language)

\* what the builder call of the i-th apply_delta of the step left in
\* last_applied_delta_id
LastAppliedAfter(i) ==
    IF i < Len(stepApplies) THEN stepApplies[i + 1].last_before
    ELSE builder.last_applied_delta_id

\* C31: when a delta callback raises while a delta is applied, every callback
\* registered for the class of the delta is run for that delta,
\* last_applied_delta_id is the id of the delta when the builder squashed it,
\* and the replay goes on: no queued delta whose parent is
\* last_applied_delta_id is left behind by the step.
C31_CallbackFailure ==
    \A i \in 1..Len(stepCallbacks) :
        stepCallbacks[i].raised # <<>> =>
            /\ stepCallbacks[i].ran = stepCallbacks[i].gathered
            /\ stepApplies[i].delta.id = stepCallbacks[i].delta
            /\ ~stepApplies[i].raised => LastAppliedAfter(i) = stepCallbacks[i].delta
            /\ stepApplies[1].last_before # NoDelta => FirstReplayable(Client) = 0

\* a callback raised for a delta, a callback registered after it still ran
\* for that delta, and a delta that was queued was replayed afterwards
C31_Witness ==
    /\ Len(stepCallbacks) = 2
    /\ Len(stepCallbacks[1].gathered) = 2
    /\ stepCallbacks[1].gathered[1] = FailingCallback
    /\ stepCallbacks[1].raised # <<>>
    /\ stepCallbacks[1].ran = stepCallbacks[1].gathered
    /\ stepApplies[2].via = "replay"
    /\ builder.last_applied_delta_id = stepCallbacks[2].delta
    /\ unapplied_deltas = <<>>

\* tracker t is registered for the message: it waits in the LifoQueue of the
\* message's transaction id or of its event
RegisteredFor(t, msg) ==
    \/ \E i \in 1..Len(transaction_callbacks[msg.transaction_id]) :
            transaction_callbacks[msg.transaction_id][i] = t
    \/ \E i \in 1..Len(type_callbacks[msg.event]) : type_callbacks[msg.event][i] = t

\* C32 as stated: when the next_trigger future of a registered tracker has
\* been cancelled and a matching message arrives, the message processing
\* loop keeps running (process_task_loop is not done).
C32_Original ==
    [][\A msg \in NoteableMessages :
          (/\ RecvNoteableMessage(msg)
           /\ \E t \in 1..Len(trackers) :
                 trackers[t].next_trigger = "cancelled" /\ RegisteredFor(t, msg))
              => process_task_loop' = "running"]_vars

\* the tracker add_cell registers for its request: check_success by
\* transaction id, once, parsed as FileDeltaReply
AddCellTracker == CallbackTracker("check_success", None, "t1", TRUE, "FileDeltaReply")

\* the new_delta_event and the new_delta_reply the server sends for the
\* request of add_cell
AddCellEvent == [event |-> "new_delta_event", transaction_id |-> "t1", success |-> None]
AddCellReply == [event |-> "new_delta_reply", transaction_id |-> "t1", success |-> "true"]

\* add_cell awaits tracker t: it is the only tracker, its future is pending
\* and it waits for the transaction id of the request
AwaitingAddCell(t) ==
    /\ Len(trackers) = 1
    /\ t = 1
    /\ trackers[t] = AddCellTracker
    /\ RegisteredFor(t, AddCellReply)

\* C33 as stated: when the new_delta_event carrying the transaction id of
\* add_cell arrives before the new_delta_reply, the message processing loop
\* is still running and add_cell still waits for the reply, and the reply
\* then resolves the future of add_cell with a result.
C33_Original ==
    [][\A t \in 1..Len(trackers) :
          /\ (RecvNoteableMessage(AddCellEvent) /\ AwaitingAddCell(t))
                => /\ process_task_loop' = "running"
                   /\ trackers'[t].next_trigger = "pending"
                   /\ transaction_callbacks'["t1"] = <<t>>
          /\ (RecvNoteableMessage(AddCellReply) /\ AwaitingAddCell(t))
                => /\ process_task_loop' = "running"
                   /\ trackers'[t].next_trigger = "result"]_vars

\* the LifoQueue tracker t belongs to: the one of its transaction id, or of
\* its message type when it has no transaction id
QueueOf(t, tcbs, ycbs) ==
    IF Truthy(trackers[t].transaction_id) THEN tcbs[trackers[t].transaction_id]
    ELSE ycbs[trackers[t].message_type]

\* how often x occurs in the sequence q
Occurrences(q, x) == Cardinality({i \in 1..Len(q) : q[i] = x})

\* the trackers the sequence of invocations names
InvokedTrackers(invoked) == [i \in 1..Len(invoked) |-> invoked[i].tracker]

Ascending(q) == \A i, j \in 1..Len(q) : i < j => q[i] < q[j]

\* C35 as stated: for every inbound message the matching handlers are
\* awaited in the order in which they were registered, the earliest
\* registered one first.
C35_Original ==
    [][\A msg \in NoteableMessages :
          RecvNoteableMessage(msg) => Ascending(InvokedTrackers(stepInvoked'))]_vars

\* tracker t, handed a message with an outcome other than a skip, is treated
\* as its once flag says: a once tracker had not been counted before and is
\* in no queue afterwards, any other tracker is back in its queue once with
\* a fresh pending future
OnceHonoured(t) ==
    IF trackers[t].once
    THEN /\ trackers[t].count = 0
         /\ Occurrences(QueueOf(t, transaction_callbacks', type_callbacks'), t) = 0
    ELSE /\ Occurrences(QueueOf(t, transaction_callbacks', type_callbacks'), t) = 1
         /\ trackers'[t].next_trigger = "pending"
         /\ trackers'[t].future = trackers[t].future + 1

\* C37 as stated: a tracker registered with once=True is invoked with a
\* non-skipped outcome at most once and is absent from the registry
\* afterwards; a tracker registered with once=False is still registered
\* after each non-skipped invocation and carries a fresh, unresolved
\* next_trigger future.
C37_Original ==
    [][\A msg \in NoteableMessages :
          RecvNoteableMessage(msg) =>
             \A i \in 1..Len(stepInvoked') :
                stepInvoked'[i].outcome # "skipped" => OnceHonoured(stepInvoked'[i].tracker)]_vars

\* the ids of the deltas in the queue q
IdsIn(q) == {q[i].id : i \in 1..Len(q)}

\* the ids of the deltas the applications in the sequence squashed
AppliedIn(applies) == {applies[i].delta.id : i \in 1..Len(applies)}

\* the applications a replay made
Replayed(applies) == SelectSeq(applies, LAMBDA a : a.via = "replay")

\* the deltas of the queue q that stand, with their first occurrence, behind
\* another delta of q with the same parent
BehindSibling(q) ==
    {q[j].id : j \in {k \in 1..Len(q) :
                        /\ \A i \in 1..(k - 1) : q[i] # q[k]
                        /\ \E i \in 1..(k - 1) : q[i].parent_delta_id = q[k].parent_delta_id}}

\* C36 as stated: of two queued deltas with the same parent a replay applies
\* the one that comes first in the queue; the other stays in
\* unapplied_deltas and is never applied afterwards.
C36_Original ==
    [][/\ AppliedIn(Replayed(stepApplies')) \cap BehindSibling(unapplied_deltas) = {}
       /\ AppliedIn(stepApplies') \cap passed_over' = {}
       /\ passed_over' \subseteq IdsIn(unapplied_deltas')]_vars

\* C38 as stated: once a subscribe_reply has been processed no
\* subscribe-timeout task is left pending, also when more than one
\* subscribe_request was sent before the reply arrived.
C38_Original ==
    lastStep = "RecvSubscribeReply" =>
        /\ file_subscribe_timeout_task # "pending"
        /\ orphan_timeout_tasks = 0

\* no two applications of the sequence squashed a delta with the same id
DistinctIds(applies) ==
    \A i, j \in 1..Len(applies) : applies[i].delta.id = applies[j].delta.id => i = j

\* C39 as stated: no delta is squashed twice into the same builder:
\* NotebookBuilder.apply_delta is called at most once for a delta id, also
\* when the delta is delivered more than once.
C39_Original ==
    [][/\ DistinctIds(stepApplies')
       /\ AppliedIn(stepApplies') \cap squash_calls = {}]_vars

\* the cell was reported as finished by the bulk_cell_state_update_event
\* that was handled last
ReportedFinished(cell_id) ==
    /\ lastStep = "RecvBulkCellStateUpdate"
    /\ cell_states[cell_id] \in {"finished_with_error", "finished_with_no_error"}

\* queue_execution made a future for the cell in the step
FutureMade(futures, cell_id) == \E i \in 1..Len(futures) : futures[i] = cell_id

\* C40 as stated: every future returned by queue_execution for a cell is
\* resolved once a bulk_cell_state_update reports the cell as finished: the
\* future the client holds for the cell is resolved by the update, and a
\* future that is still pending is not dropped from the client's futures by
\* a later queue_execution for the same cell.
C40_Original ==
    [][\A cell_id \in ExecCells :
          /\ ReportedFinished(cell_id)' => execute_cell_events'[cell_id].state # "pending"
          /\ (/\ QueueExecution(ExecArgs(cell_id, None, None, FALSE))
              /\ execute_cell_events[cell_id].state = "pending")
                => ~FutureMade(stepFutures', cell_id)]_vars

====
